---- MODULE Spec2Model ----
(***************************************************************************)
(* Model of the custom tool library of korda-tools (src-tauri/src/tools):  *)
(* the path and name sanitizer and content staging (storage.rs), the       *)
(* catalog (db.rs), the archive codec (zip.rs) and the ingest/egress       *)
(* orchestrator (commands.rs).                                             *)
(*                                                                         *)
(* Representation.  A Rust String is a sequence of characters, a character *)
(* a one-element TLA+ string ("a", "/", " ").  Two characters outside      *)
(* ASCII are written "U+E9" (a letter, two bytes in UTF-8) and "U+A0" (a   *)
(* white-space character, two bytes); NUL is written "U+00".  Bytes are    *)
(* numbers in 0..255.                                                      *)
(* A Result is a record [ok, kind, msg, val], an Option a record           *)
(* [some, v].                                                              *)
(***************************************************************************)
EXTENDS Integers, Sequences, FiniteSets, TLC

(***************************************************************************)
(* Characters and strings (the std library operations the code calls).     *)
(***************************************************************************)
UpperSeq ==
  <<"A","B","C","D","E","F","G","H","I","J","K","L","M",
    "N","O","P","Q","R","S","T","U","V","W","X","Y","Z">>

LowerSeq ==
  <<"a","b","c","d","e","f","g","h","i","j","k","l","m",
    "n","o","p","q","r","s","t","u","v","w","x","y","z">>

DigitSeq == <<"0","1","2","3","4","5","6","7","8","9">>

Range(s) == { s[i] : i \in DOMAIN s }

UpperSet == Range(UpperSeq)

LowerSet == Range(LowerSeq)

DigitSet == Range(DigitSeq)

\* The ASCII characters of the model in code-point order, for comparisons.
AsciiSeq ==
  <<"U+00", " ", "*", "+", "-", ".", "/">> \o DigitSeq \o <<":", "=", "?">> \o UpperSeq
    \o <<"\\", "_">> \o LowerSeq

NonAsciiSet == {"U+A0", "U+E9"}

IndexOf(seq, c) == CHOOSE i \in DOMAIN seq : seq[i] = c

\* char::to_ascii_lowercase
to_ascii_lowercase_char(c) ==
  IF c \in UpperSet THEN LowerSeq[IndexOf(UpperSeq, c)] ELSE c

\* char::to_ascii_uppercase
to_ascii_uppercase_char(c) ==
  IF c \in LowerSet THEN UpperSeq[IndexOf(LowerSeq, c)] ELSE c

\* str::to_ascii_lowercase
to_ascii_lowercase(s) == [i \in DOMAIN s |-> to_ascii_lowercase_char(s[i])]

\* str::to_ascii_uppercase
to_ascii_uppercase(s) == [i \in DOMAIN s |-> to_ascii_uppercase_char(s[i])]

\* Faulty variant of eq_ignore_ascii_case: the comparison by ==.
eq_ignore_ascii_case_Exact(a, b) == a = b

\* str::eq_ignore_ascii_case
eq_ignore_ascii_case(a, b) == to_ascii_lowercase(a) = to_ascii_lowercase(b)

\* char::is_ascii_alphanumeric
is_ascii_alphanumeric(c) == c \in UpperSet \cup LowerSet \cup DigitSet

\* char::is_whitespace (Unicode White_Space)
is_whitespace(c) == c \in {" ", "U+A0"}

\* The UTF-8 length of a character: str::len counts bytes.
Utf8Len(c) == IF c \in NonAsciiSet THEN 2 ELSE 1

RECURSIVE ByteLen(_)
\* str::len
ByteLen(s) == IF s = <<>> THEN 0 ELSE Utf8Len(Head(s)) + ByteLen(Tail(s))

\* The code point order of two characters (non-ASCII after ASCII).
CharCode(c) ==
  IF c \in Range(AsciiSeq) THEN IndexOf(AsciiSeq, c)
  ELSE IF c = "U+A0" THEN Len(AsciiSeq) + 1 ELSE Len(AsciiSeq) + 2

RECURSIVE StrLess(_, _)
\* a < b for strings (Ord for str: lexicographic by code point)
StrLess(a, b) ==
  IF b = <<>> THEN FALSE
  ELSE IF a = <<>> THEN TRUE
  ELSE IF CharCode(Head(a)) # CharCode(Head(b))
    THEN CharCode(Head(a)) < CharCode(Head(b))
  ELSE StrLess(Tail(a), Tail(b))

WhitespaceSet == {" ", "U+A0"}

RECURSIVE TrimStartIn(_, _)
TrimStartIn(s, chars) ==
  IF s # <<>> /\ Head(s) \in chars THEN TrimStartIn(Tail(s), chars) ELSE s

RECURSIVE TrimEndIn(_, _)
TrimEndIn(s, chars) ==
  IF s # <<>> /\ s[Len(s)] \in chars
    THEN TrimEndIn(SubSeq(s, 1, Len(s) - 1), chars)
    ELSE s

\* str::trim_matches(set of characters)
trim_matches(s, chars) == TrimEndIn(TrimStartIn(s, chars), chars)

\* str::trim
trim(s) == trim_matches(s, WhitespaceSet)

\* str::contains(char)
contains_char(s, c) == \E i \in DOMAIN s : s[i] = c

\* str::contains(&str)
contains_str(s, pat) ==
  \E i \in 1..(Len(s) - Len(pat) + 1) : SubSeq(s, i, i + Len(pat) - 1) = pat

\* str::starts_with
starts_with(s, pat) == Len(s) >= Len(pat) /\ SubSeq(s, 1, Len(pat)) = pat

\* str::ends_with
ends_with(s, pat) ==
  Len(s) >= Len(pat) /\ SubSeq(s, Len(s) - Len(pat) + 1, Len(s)) = pat

RECURSIVE split(_, _)
\* str::split(char): the segments between the separators, empty ones kept
split(s, sep) ==
  IF ~contains_char(s, sep) THEN <<s>>
  ELSE LET i == CHOOSE k \in DOMAIN s :
                  s[k] = sep /\ \A j \in 1..(k - 1) : s[j] # sep
       IN <<SubSeq(s, 1, i - 1)>> \o split(SubSeq(s, i + 1, Len(s)), sep)

RECURSIVE Concat(_)
\* the concatenation of a sequence of strings (format!)
Concat(parts) == IF parts = <<>> THEN <<>> ELSE Head(parts) \o Concat(Tail(parts))

RECURSIVE DecimalDigits(_)
\* usize::to_string
DecimalDigits(n) ==
  IF n < 10 THEN <<DigitSeq[n + 1]>>
  ELSE DecimalDigits(n \div 10) \o <<DigitSeq[(n % 10) + 1]>>

(***************************************************************************)
(* Results and options.                                                    *)
(***************************************************************************)
Ok(v) == [ok |-> TRUE, kind |-> "Ok", msg |-> "", val |-> v]

Err(k, m) == [ok |-> FALSE, kind |-> k, msg |-> m, val |-> <<>>]

None == [some |-> FALSE, v |-> <<>>]

Some(x) == [some |-> TRUE, v |-> x]

\* The map f with k bound to v (insert or overwrite).
Put(f, k, v) == [x \in DOMAIN f \cup {k} |-> IF x = k THEN v ELSE f[x]]

\* The map f without the keys.
Without(f, keys) == [x \in DOMAIN f \ keys |-> f[x]]

\* let <name> = <value>; <body>
Bind(value, Body(_)) == Body(value)

\* let <name> = <result>?; <body>: an Err returns at once
Try(result, Body(_)) == IF result.ok THEN Body(result.val) ELSE result

(***************************************************************************)
(* storage.rs: path and name sanitizer.                                    *)
(***************************************************************************)
DEFAULT_MAX_FILE_SIZE_BYTES == 50 * 1024 * 1024

DEFAULT_MAX_VERSION_SIZE_BYTES == 200 * 1024 * 1024

MAX_SANITIZED_FILENAME_LEN == 120

STORAGE_ROOT_SEGMENT == <<"t","o","o","l","s">>

STORAGE_FILES_SEGMENT == <<"f","i","l","e","s">>

ALLOWED_EXTENSIONS ==
  { <<"l","s","p">>, <<"v","l","x">>, <<"f","a","s">>, <<"s","c","r">>,
    <<"d","w","g">>, <<"d","x","f">>, <<"c","u","i","x">>, <<"z","i","p">>,
    <<"p","d","f">>, <<"t","x","t">>, <<"m","d">>, <<"j","s","o","n">> }

\* FileLimits::default
FileLimitsDefault ==
  [max_file_size_bytes |-> DEFAULT_MAX_FILE_SIZE_BYTES,
   max_total_size_bytes |-> DEFAULT_MAX_VERSION_SIZE_BYTES]

\* usize::saturating_sub
saturating_sub(a, b) == IF a >= b THEN a - b ELSE 0

Max(a, b) == IF a >= b THEN a ELSE b

Min(a, b) == IF a <= b THEN a ELSE b

\* The position of the last '.' of a file name, 0 when it has none.
LastDot(name) ==
  IF contains_char(name, ".")
    THEN CHOOSE i \in DOMAIN name :
           name[i] = "." /\ \A j \in (i + 1)..Len(name) : name[j] # "."
    ELSE 0

\* Path::extension of a single file name (std: rsplit_file_at_dot)
path_extension(name) ==
  Bind(LastDot(name), LAMBDA dot :
    IF name = <<".", ".">> \/ dot <= 1 THEN None
    ELSE Some(SubSeq(name, dot + 1, Len(name))))

\* Path::file_stem of a single file name (std: rsplit_file_at_dot)
path_file_stem(name) ==
  Bind(LastDot(name), LAMBDA dot :
    IF name = <<".", ".">> \/ dot <= 1 THEN Some(name)
    ELSE Some(SubSeq(name, 1, dot - 1)))

\* is_reserved_windows_name
is_reserved_windows_name(stem) ==
  LET upper == to_ascii_uppercase(stem) IN
    \/ upper \in { <<"C","O","N">>, <<"P","R","N">>, <<"A","U","X">>, <<"N","U","L">> }
    \/ /\ Len(upper) = 4
       /\ SubSeq(upper, 1, 3) \in { <<"C","O","M">>, <<"L","P","T">> }
       /\ upper[4] \in (DigitSet \ {"0"})

\* The character map of sanitize_filename's stem.
SanitizeStemChar(c) ==
  IF is_ascii_alphanumeric(c) \/ c \in {"-", "_", "."} THEN c ELSE "_"

\* sanitize_filename
sanitize_filename(original_name) ==
  Bind(trim(original_name), LAMBDA candidate :
  IF candidate = <<>> THEN Err("Validation", "File name is required.")
  ELSE IF contains_char(candidate, "/") \/ contains_char(candidate, "\\")
          \/ contains_str(candidate, <<".", ".">>)
    THEN Err("Validation", "File name cannot contain path separators or traversal segments.")
  ELSE IF contains_char(candidate, ":")
    THEN Err("Validation", "File name cannot contain drive-prefix separators.")
  ELSE IF candidate = <<".">>
    THEN Err("Validation", "File name must be a single relative file name.")
  ELSE
    Bind(path_extension(candidate), LAMBDA raw_extension :
    IF ~raw_extension.some THEN Err("Validation", "File extension is required.")
    ELSE
      Bind(to_ascii_lowercase(raw_extension.v), LAMBDA extension :
      IF extension \notin ALLOWED_EXTENSIONS
        THEN Err("Validation", "Unsupported file extension")
      ELSE
        Bind(path_file_stem(candidate).v, LAMBDA stem :
        Bind(trim_matches([i \in DOMAIN stem |-> SanitizeStemChar(stem[i])], {".", " "}),
             LAMBDA mapped :
        Bind(IF mapped = <<>> THEN <<"f","i","l","e">> ELSE mapped, LAMBDA named :
        Bind(IF is_reserved_windows_name(named)
               THEN named \o <<"_","f","i","l","e">> ELSE named, LAMBDA guarded :
        Bind(saturating_sub(MAX_SANITIZED_FILENAME_LEN, Len(extension) + 1),
             LAMBDA max_stem_len :
          Ok((IF Len(guarded) > max_stem_len
                THEN SubSeq(guarded, 1, Max(max_stem_len, 1))
                ELSE guarded) \o <<".">> \o extension)))))))))

\* Faulty variant of assert_safe_archive_path: the segments are not inspected.
assert_safe_archive_path_NoSegments(path) ==
  Bind(trim(path), LAMBDA trimmed :
  IF trimmed = <<>> THEN Err("Zip", "Zip entry has an empty path.")
  ELSE IF starts_with(trimmed, <<"/">>) \/ contains_char(trimmed, "\\")
          \/ contains_char(trimmed, ":") \/ contains_char(trimmed, "U+00")
    THEN Err("Zip", "Unsafe zip entry path")
  ELSE Ok(<<>>))

\* assert_safe_archive_path
assert_safe_archive_path(path) ==
  Bind(trim(path), LAMBDA trimmed :
  IF trimmed = <<>> THEN Err("Zip", "Zip entry has an empty path.")
  ELSE IF starts_with(trimmed, <<"/">>) \/ starts_with(trimmed, <<"\\">>)
          \/ contains_char(trimmed, ":")
    THEN Err("Zip", "Unsafe zip entry path")
  ELSE IF contains_char(trimmed, "\\") THEN Err("Zip", "Unsafe zip entry path")
  ELSE IF contains_char(trimmed, "U+00") THEN Err("Zip", "Unsafe zip entry path")
  ELSE IF \E segment \in Range(split(trimmed, "/")) :
            segment \in { <<>>, <<".">>, <<".", ".">> }
    THEN Err("Zip", "Unsafe zip entry path")
  \* the closing loop over Path::components finds only Normal components here
  ELSE Ok(<<>>))

\* validate_storage_segment
validate_storage_segment(label, value) ==
  Bind(trim(value), LAMBDA trimmed :
  IF trimmed = <<>> THEN Err("Validation", "is required.")
  ELSE IF contains_char(trimmed, "/") \/ contains_char(trimmed, "\\")
          \/ contains_str(trimmed, <<".", ".">>) \/ contains_char(trimmed, ":")
    THEN Err("Validation", "contains unsafe path characters.")
  ELSE IF ~\A i \in DOMAIN trimmed :
            is_ascii_alphanumeric(trimmed[i]) \/ trimmed[i] \in {"-", "_"}
    THEN Err("Validation", "contains unsupported characters.")
  ELSE Ok(trimmed))

\* The format!("{}/{}/{}/{}/{}") of the stored path.
StoredPath(tool_id, version_id, file_name) ==
  Concat(<<STORAGE_ROOT_SEGMENT, <<"/">>, tool_id, <<"/">>, version_id, <<"/">>,
           STORAGE_FILES_SEGMENT, <<"/">>, file_name>>)

\* Faulty variant of build_stored_rel_path: the version comes before the tool.
build_stored_rel_path_Swapped(tool_id, version_id, file_name) ==
  Try(validate_storage_segment("tool_id", tool_id), LAMBDA safe_tool_id :
  Try(validate_storage_segment("version_id", version_id), LAMBDA safe_version_id :
  Try(sanitize_filename(file_name), LAMBDA safe_file_name :
    Ok(StoredPath(safe_version_id, safe_tool_id, safe_file_name)))))

\* build_stored_rel_path
build_stored_rel_path(tool_id, version_id, file_name) ==
  Try(validate_storage_segment("tool_id", tool_id), LAMBDA safe_tool_id :
  Try(validate_storage_segment("version_id", version_id), LAMBDA safe_version_id :
  Try(sanitize_filename(file_name), LAMBDA safe_file_name :
    Ok(StoredPath(safe_tool_id, safe_version_id, safe_file_name)))))

\* normalize_stored_rel_path
normalize_stored_rel_path(stored_rel_path) ==
  Try(assert_safe_archive_path(stored_rel_path), LAMBDA safe :
  Bind(split(trim(stored_rel_path), "/"), LAMBDA segments :
  IF Len(segments) # 5 \/ segments[1] # STORAGE_ROOT_SEGMENT
       \/ segments[4] # STORAGE_FILES_SEGMENT
    THEN Err("Io", "Invalid stored path structure")
  ELSE
    Try(validate_storage_segment("tool_id", segments[2]), LAMBDA safe_tool_id :
    Try(validate_storage_segment("version_id", segments[3]), LAMBDA safe_version_id :
    Try(sanitize_filename(segments[5]), LAMBDA safe_file_name :
      IF safe_file_name # segments[5]
        THEN Err("Io", "Stored file name must already be sanitized")
        ELSE Ok(StoredPath(safe_tool_id, safe_version_id, safe_file_name)))))))

\* assert_stored_path_matches_version
assert_stored_path_matches_version(stored_rel_path, tool_id, version_id) ==
  Try(normalize_stored_rel_path(stored_rel_path), LAMBDA normalized :
  Try(validate_storage_segment("tool_id", tool_id), LAMBDA safe_tool_id :
  Try(validate_storage_segment("version_id", version_id), LAMBDA safe_version_id :
    IF ~starts_with(normalized,
          Concat(<<STORAGE_ROOT_SEGMENT, <<"/">>, safe_tool_id, <<"/">>,
                   safe_version_id, <<"/">>, STORAGE_FILES_SEGMENT>>))
      THEN Err("Io", "Stored path is outside requested version scope")
      ELSE Ok(<<>>))))

\* resolve_stored_path: the store is keyed by the normalized relative path
\* (the app data directory is the fixed root the path is pushed onto).
resolve_stored_path(stored_rel_path) == normalize_stored_rel_path(stored_rel_path)

(***************************************************************************)
(* storage.rs: content staging.                                            *)
(***************************************************************************)
\* The alphabet of base64::engine::general_purpose::STANDARD.
Base64Alphabet == UpperSeq \o LowerSeq \o DigitSeq \o <<"+", "/">>

Base64Char(n) == Base64Alphabet[n + 1]

Base64Value(c) == IndexOf(Base64Alphabet, c) - 1

IsBase64Char(c) == c \in Range(Base64Alphabet)

RECURSIVE base64_encode(_)
\* STANDARD.encode: three bytes to four characters, '=' padding
base64_encode(bytes) ==
  IF bytes = <<>> THEN <<>>
  ELSE IF Len(bytes) = 1 THEN
    << Base64Char(bytes[1] \div 4), Base64Char((bytes[1] % 4) * 16), "=", "=" >>
  ELSE IF Len(bytes) = 2 THEN
    << Base64Char(bytes[1] \div 4),
       Base64Char((bytes[1] % 4) * 16 + bytes[2] \div 16),
       Base64Char((bytes[2] % 16) * 4), "=" >>
  ELSE
    << Base64Char(bytes[1] \div 4),
       Base64Char((bytes[1] % 4) * 16 + bytes[2] \div 16),
       Base64Char((bytes[2] % 16) * 4 + bytes[3] \div 64),
       Base64Char(bytes[3] % 64) >> \o base64_encode(SubSeq(bytes, 4, Len(bytes)))

\* The bytes of one group of four characters; <<-1>> when it is invalid.
Base64Quad(q, last) ==
  IF \A i \in 1..4 : IsBase64Char(q[i]) THEN
    << Base64Value(q[1]) * 4 + Base64Value(q[2]) \div 16,
       (Base64Value(q[2]) % 16) * 16 + Base64Value(q[3]) \div 4,
       (Base64Value(q[3]) % 4) * 64 + Base64Value(q[4]) >>
  ELSE IF last /\ q[4] = "=" /\ \A i \in 1..3 : IsBase64Char(q[i]) THEN
    IF Base64Value(q[3]) % 4 # 0 THEN <<-1>>
    ELSE << Base64Value(q[1]) * 4 + Base64Value(q[2]) \div 16,
            (Base64Value(q[2]) % 16) * 16 + Base64Value(q[3]) \div 4 >>
  ELSE IF last /\ q[3] = "=" /\ q[4] = "=" /\ \A i \in 1..2 : IsBase64Char(q[i]) THEN
    IF Base64Value(q[2]) % 16 # 0 THEN <<-1>>
    ELSE << Base64Value(q[1]) * 4 + Base64Value(q[2]) \div 16 >>
  ELSE <<-1>>

RECURSIVE base64_decode(_)
\* STANDARD.decode: canonical padding, no white space, no trailing bits
base64_decode(text) ==
  IF text = <<>> THEN Ok(<<>>)
  ELSE IF Len(text) < 4 THEN Err("Validation", "Invalid base64 file payload")
  ELSE
    Bind(Base64Quad(SubSeq(text, 1, 4), Len(text) = 4), LAMBDA quad :
    Bind(base64_decode(SubSeq(text, 5, Len(text))), LAMBDA rest :
      IF quad = <<-1>> \/ ~rest.ok THEN Err("Validation", "Invalid base64 file payload")
      ELSE Ok(quad \o rest.val)))

HexSeq == DigitSeq \o <<"a","b","c","d","e","f">>

RECURSIVE Checksum(_, _)
Checksum(bytes, h) ==
  IF bytes = <<>> THEN h ELSE Checksum(Tail(bytes), (h * 31 + Head(bytes)) % 256)

\* sha256_hex: the digest as lowercase hex.  SHA-256 itself is abstracted to
\* an 8-bit checksum of the bytes; the code only compares digests for equality.
sha256_hex(bytes) ==
  Bind(Checksum(bytes, 7), LAMBDA digest :
    << HexSeq[(digest \div 16) + 1], HexSeq[(digest % 16) + 1] >>)

RECURSIVE UniqueSuffixLoop(_, _, _, _)
\* The loop of unique_sanitized_filename, from `suffix` on.
UniqueSuffixLoop(stem, extension, existing, suffix) ==
  Bind(DecimalDigits(suffix), LAMBDA digits :
  Bind(Concat(<<stem, <<"_">>, digits, <<".">>, extension>>), LAMBDA candidate :
  Bind(saturating_sub(MAX_SANITIZED_FILENAME_LEN, Len(extension) + 2 + Len(digits)),
       LAMBDA max_stem :
  Bind(IF Len(candidate) > MAX_SANITIZED_FILENAME_LEN
         THEN Concat(<<SubSeq(stem, 1, Min(Max(max_stem, 1), Len(stem))), <<"_">>,
                       digits, <<".">>, extension>>)
         ELSE candidate, LAMBDA trimmed_candidate :
  Bind(to_ascii_lowercase(trimmed_candidate), LAMBDA key :
    IF key \notin existing
      THEN Ok([name |-> trimmed_candidate, existing |-> existing \cup {key}])
      ELSE UniqueSuffixLoop(stem, extension, existing, suffix + 1))))))

\* Faulty variant of unique_sanitized_filename: the suffixes start at 3.
unique_sanitized_filename_From3(original_name, existing) ==
  Try(sanitize_filename(original_name), LAMBDA sanitized :
  Bind(to_ascii_lowercase(sanitized), LAMBDA key :
    IF key \notin existing
      THEN Ok([name |-> sanitized, existing |-> existing \cup {key}])
      ELSE UniqueSuffixLoop(path_file_stem(sanitized).v, path_extension(sanitized).v,
                            existing, 3)))

\* Faulty variant of unique_sanitized_filename: names that differ in case
\* only are taken to be different.
unique_sanitized_filename_CaseSensitive(original_name, existing) ==
  Try(sanitize_filename(original_name), LAMBDA sanitized :
    IF sanitized \notin existing
      THEN Ok([name |-> sanitized, existing |-> existing \cup {sanitized}])
      ELSE UniqueSuffixLoop(path_file_stem(sanitized).v, path_extension(sanitized).v,
                            existing, 2))

\* unique_sanitized_filename: the name and the updated set of used names
unique_sanitized_filename(original_name, existing) ==
  Try(sanitize_filename(original_name), LAMBDA sanitized :
  Bind(to_ascii_lowercase(sanitized), LAMBDA key :
    IF key \notin existing
      THEN Ok([name |-> sanitized, existing |-> existing \cup {key}])
      ELSE Bind(path_extension(sanitized), LAMBDA extension :
             IF ~extension.some
               THEN Err("Validation", "File extension is required.")
               ELSE UniqueSuffixLoop(path_file_stem(sanitized).v, extension.v,
                                     existing, 2))))

RECURSIVE StageLoop(_, _, _, _, _, _, _)
\* The loop of stage_inbound_files over the remaining files.
StageLoop(tool_id, version_id, files, limits, staged, total_bytes, used_names) ==
  IF files = <<>> THEN Ok(staged)
  ELSE
    Bind(Head(files), LAMBDA file :
    Try(unique_sanitized_filename(file.original_name, used_names), LAMBDA sanitized :
    Try(base64_decode(trim(file.data_base64)), LAMBDA bytes :
      IF Len(bytes) = 0 THEN Err("Validation", "is empty.")
      ELSE IF Len(bytes) > limits.max_file_size_bytes
        THEN Err("Validation", "exceeds max size")
      ELSE IF total_bytes + Len(bytes) > limits.max_total_size_bytes
        THEN Err("Validation", "Combined file size exceeds")
      ELSE
        Try(build_stored_rel_path(tool_id, version_id, sanitized.name),
            LAMBDA stored_rel_path :
          StageLoop(tool_id, version_id, Tail(files), limits,
            Append(staged,
              [original_name |-> sanitized.name,
               mime |-> file.mime,
               bytes |-> bytes,
               size_bytes |-> Len(bytes),
               sha256 |-> sha256_hex(bytes),
               stored_rel_path |-> stored_rel_path]),
            total_bytes + Len(bytes), sanitized.existing)))))

\* Faulty variant of stage_inbound_files: an empty list is staged as it is.
stage_inbound_files_AllowEmpty(tool_id, version_id, files, limits) ==
  Try(validate_storage_segment("tool_id", tool_id), LAMBDA normalized_tool_id :
  Try(validate_storage_segment("version_id", version_id), LAMBDA normalized_version_id :
    StageLoop(normalized_tool_id, normalized_version_id, files, limits, <<>>, 0, {})))

\* Faulty variant of stage_inbound_files: a size equal to a limit is refused.
stage_inbound_files_BelowLimits(tool_id, version_id, files, limits) ==
  Try(validate_storage_segment("tool_id", tool_id), LAMBDA normalized_tool_id :
  Try(validate_storage_segment("version_id", version_id), LAMBDA normalized_version_id :
    IF files = <<>> THEN Err("Validation", "At least one file is required.")
    ELSE StageLoop(normalized_tool_id, normalized_version_id, files,
                   [max_file_size_bytes |-> limits.max_file_size_bytes - 1,
                    max_total_size_bytes |-> limits.max_total_size_bytes - 1],
                   <<>>, 0, {})))

\* stage_inbound_files
stage_inbound_files(tool_id, version_id, files, limits) ==
  Try(validate_storage_segment("tool_id", tool_id), LAMBDA normalized_tool_id :
  Try(validate_storage_segment("version_id", version_id), LAMBDA normalized_version_id :
    IF files = <<>> THEN Err("Validation", "At least one file is required.")
    ELSE StageLoop(normalized_tool_id, normalized_version_id, files, limits,
                   <<>>, 0, {})))

(***************************************************************************)
(* db.rs: validation and normalisation of the catalog's text fields.       *)
(***************************************************************************)
\* validate_required (db.rs; zip.rs holds a verbatim copy)
validate_required(field, value, max_len) ==
  Bind(trim(value), LAMBDA trimmed :
    IF trimmed = <<>> THEN Err("Validation", "is required.")
    ELSE IF ByteLen(trimmed) > max_len THEN Err("Validation", "exceeds maximum length")
    ELSE Ok(trimmed))

\* normalize_optional_text (db.rs; zip.rs holds a verbatim copy)
normalize_optional_text(value, max_len) ==
  IF ~value.some THEN Ok(None)
  ELSE Bind(trim(value.v), LAMBDA trimmed :
         IF trimmed = <<>> THEN Ok(None)
         ELSE IF ByteLen(trimmed) > max_len
           THEN Err("Validation", "Text exceeds maximum length")
         ELSE Ok(Some(trimmed)))

RECURSIVE InsertByLowercase(_, _)
\* One step of the stable sort by lowercased key: x goes after every
\* element whose key is not greater.
InsertByLowercase(sorted, x) ==
  IF sorted = <<>> THEN <<x>>
  ELSE IF StrLess(to_ascii_lowercase(x), to_ascii_lowercase(Head(sorted)))
    THEN <<x>> \o sorted
  ELSE <<Head(sorted)>> \o InsertByLowercase(Tail(sorted), x)

RECURSIVE SortByLowercase(_)
\* slice::sort_by(|l, r| l.to_ascii_lowercase().cmp(&r.to_ascii_lowercase()))
SortByLowercase(seq) ==
  IF seq = <<>> THEN <<>>
  ELSE InsertByLowercase(SortByLowercase(SubSeq(seq, 1, Len(seq) - 1)), seq[Len(seq)])

RECURSIVE NormalizeTagsLoop(_, _, _)
\* The loop of normalize_tags over the remaining raw tags.
NormalizeTagsLoop(tags, seen, normalized) ==
  IF tags = <<>> THEN Ok(SortByLowercase(normalized))
  ELSE
    Bind(trim(Head(tags)), LAMBDA trimmed :
    Bind(to_ascii_lowercase(trimmed), LAMBDA key :
      IF trimmed = <<>> THEN NormalizeTagsLoop(Tail(tags), seen, normalized)
      ELSE IF ByteLen(trimmed) > 48 THEN Err("Validation", "Tag exceeds 48 characters.")
      ELSE IF key \in seen THEN NormalizeTagsLoop(Tail(tags), seen, normalized)
      ELSE NormalizeTagsLoop(Tail(tags), seen \cup {key}, Append(normalized, trimmed))))

\* normalize_tags
normalize_tags(tags) == NormalizeTagsLoop(tags, {}, <<>>)

\* The loop of slugify over the lowercased characters: a letter or digit is
\* pushed; any other character pushes '-' unless previous_dash is set, which
\* it is exactly after a character that is no letter or digit.
SlugifyLoop(chars) ==
  SelectSeq([i \in DOMAIN chars |->
               IF is_ascii_alphanumeric(chars[i]) THEN chars[i]
               ELSE IF i = 1 \/ is_ascii_alphanumeric(chars[i - 1]) THEN "-"
               ELSE "none"],
            LAMBDA c : c # "none")

\* slugify
slugify(value) ==
  Bind(trim_matches(SlugifyLoop(to_ascii_lowercase(value)), {"-"}),
       LAMBDA slug : IF slug = <<>> THEN <<"t","o","o","l">> ELSE slug)

(***************************************************************************)
(* zip.rs: the archive codec.  An archive is the tree the zip container    *)
(* holds: [manifest, instructions, tree], manifest.json as the parsed      *)
(* ToolExportManifest (an Option: absent or unreadable is None),           *)
(* instructions.md as its text (an Option) and every other file of the     *)
(* tree as a function from its relative path to its bytes.  serde_json and *)
(* the zip container are taken to return the structure they were given.    *)
(***************************************************************************)
MANIFEST_JSON == <<"m","a","n","i","f","e","s","t",".","j","s","o","n">>

INSTRUCTIONS_MD == <<"i","n","s","t","r","u","c","t","i","o","n","s",".","m","d">>

FILES_PREFIX == <<"f","i","l","e","s","/">>

RECURSIVE BuildManifestLoop(_, _, _)
\* The loop of build_manifest over the remaining files of the context.
BuildManifestLoop(ctx_files, seen_names, out) ==
  IF ctx_files = <<>> THEN Ok(out)
  ELSE
    Bind(Head(ctx_files), LAMBDA file :
    Try(sanitize_filename(file.original_name), LAMBDA original_name :
    Bind(to_ascii_lowercase(original_name), LAMBDA key :
      IF key \in seen_names THEN Err("Validation", "Duplicate file name in version")
      ELSE BuildManifestLoop(Tail(ctx_files), seen_names \cup {key},
             Append(out, [original_name |-> original_name,
                          sha256 |-> file.sha256,
                          size_bytes |-> Max(file.size_bytes, 0),
                          relative_path |-> FILES_PREFIX \o original_name])))))

\* Faulty variant of build_manifest: the tags are left out.
build_manifest_NoTags(context) ==
  Try(BuildManifestLoop(context.files, {}, <<>>), LAMBDA manifest_files :
    Ok([tool |-> [name |-> context.tool.name,
                  slug |-> context.tool.slug,
                  description |-> context.tool.description,
                  category |-> context.tool.category,
                  tags |-> <<>>],
        version |-> [version |-> context.version.version,
                     changelog_md |-> context.version.changelog_md],
        files |-> manifest_files]))

\* build_manifest
build_manifest(context) ==
  Try(BuildManifestLoop(context.files, {}, <<>>), LAMBDA manifest_files :
    Ok([tool |-> [name |-> context.tool.name,
                  slug |-> context.tool.slug,
                  description |-> context.tool.description,
                  category |-> context.tool.category,
                  tags |-> context.tool.tags],
        version |-> [version |-> context.version.version,
                     changelog_md |-> context.version.changelog_md],
        files |-> manifest_files]))

\* read_stored_file_bytes: resolve the path, then fs::read
read_stored_file_bytes(blobs, stored_rel_path) ==
  Try(resolve_stored_path(stored_rel_path), LAMBDA path :
    IF path \notin DOMAIN blobs THEN Err("Io", "File operation failed")
    ELSE Ok(blobs[path]))

RECURSIVE ExportFilesLoop_NoHashCheck(_, _, _, _)
\* Faulty variant of the loop of export_tool_version_zip: the digest of the
\* blob is not compared.
ExportFilesLoop_NoHashCheck(blobs, context, ctx_files, staged_tree) ==
  IF ctx_files = <<>> THEN Ok(staged_tree)
  ELSE
    Bind(Head(ctx_files), LAMBDA file :
    Try(sanitize_filename(file.original_name), LAMBDA sanitized :
    Try(assert_stored_path_matches_version(
          file.stored_rel_path, context.version.tool_id, context.version.id),
        LAMBDA scoped :
    Try(build_stored_rel_path(context.version.tool_id, context.version.id, sanitized),
        LAMBDA expected_rel_path :
      IF file.stored_rel_path # expected_rel_path
        THEN Err("Zip", "Stored path mismatch")
      ELSE
        Try(read_stored_file_bytes(blobs, file.stored_rel_path), LAMBDA bytes :
          IF Len(bytes) # Max(file.size_bytes, 0)
            THEN Err("Zip", "Stored file size mismatch")
          ELSE ExportFilesLoop_NoHashCheck(blobs, context, Tail(ctx_files),
                 Put(staged_tree, FILES_PREFIX \o sanitized, bytes)))))))

RECURSIVE ExportFilesLoop(_, _, _, _)
\* The loop of export_tool_version_zip over the files: the staged files/ tree.
ExportFilesLoop(blobs, context, ctx_files, staged_tree) ==
  IF ctx_files = <<>> THEN Ok(staged_tree)
  ELSE
    Bind(Head(ctx_files), LAMBDA file :
    Try(sanitize_filename(file.original_name), LAMBDA sanitized :
    Try(assert_stored_path_matches_version(
          file.stored_rel_path, context.version.tool_id, context.version.id),
        LAMBDA scoped :
    Try(build_stored_rel_path(context.version.tool_id, context.version.id, sanitized),
        LAMBDA expected_rel_path :
      IF file.stored_rel_path # expected_rel_path
        THEN Err("Zip", "Stored path mismatch")
      ELSE
        Try(read_stored_file_bytes(blobs, file.stored_rel_path), LAMBDA bytes :
          IF Len(bytes) # Max(file.size_bytes, 0)
            THEN Err("Zip", "Stored file size mismatch")
          ELSE IF ~eq_ignore_ascii_case(sha256_hex(bytes), trim(file.sha256))
            THEN Err("Zip", "Stored file hash mismatch")
          ELSE ExportFilesLoop(blobs, context, Tail(ctx_files),
                 Put(staged_tree, FILES_PREFIX \o sanitized, bytes)))))))

\* export_tool_version_zip: the archive written to the destination
export_tool_version_zip(blobs, context) ==
  Try(build_manifest(context), LAMBDA manifest :
  Try(ExportFilesLoop(blobs, context, context.files, <<>>), LAMBDA staged_tree :
    Ok([manifest |-> Some(manifest),
        instructions |-> Some(context.version.instructions_md),
        tree |-> staged_tree])))

\* extract_zip_safely: the entry-name checks of the extraction script
extract_zip_safely(archive) ==
  IF \E name \in DOMAIN archive.tree :
       \/ trim(name) = <<>>
       \/ starts_with(name, <<"/">>) \/ starts_with(name, <<"\\">>)
       \/ contains_str(name, <<".", ".">>)
       \/ contains_char(name, ":")
    THEN Err("Zip", "Unsafe zip entry path")
    ELSE Ok(<<>>)

\* Faulty variant of collect_relative_files: the walk does not descend.
collect_relative_files_TopLevel(archive) ==
  (IF archive.manifest.some THEN {MANIFEST_JSON} ELSE {})
    \cup (IF archive.instructions.some THEN {INSTRUCTIONS_MD} ELSE {})

\* collect_relative_files: every file of the extracted tree
collect_relative_files(archive) ==
  (IF archive.manifest.some THEN {MANIFEST_JSON} ELSE {})
    \cup (IF archive.instructions.some THEN {INSTRUCTIONS_MD} ELSE {})
    \cup DOMAIN archive.tree

RECURSIVE ImportFilesLoop_NoDuplicateCheck(_, _, _, _, _, _)
\* Faulty variant of the loop of import_tool_zip: seen_names is not consulted.
ImportFilesLoop_NoDuplicateCheck(archive, manifest_files, parsed_files, seen_names, total_size, expected_paths) ==
  IF manifest_files = <<>>
    THEN Ok([parsed_files |-> parsed_files, expected_paths |-> expected_paths])
  ELSE
    Bind(Head(manifest_files), LAMBDA file :
    Try(assert_safe_archive_path(file.relative_path), LAMBDA safe :
      IF ~starts_with(file.relative_path, FILES_PREFIX)
        THEN Err("Zip", "Manifest file path must start with files/")
      ELSE
        Try(sanitize_filename(file.original_name), LAMBDA sanitized :
        Bind(FILES_PREFIX \o sanitized, LAMBDA expected_relative_path :
          IF file.relative_path # expected_relative_path
            THEN Err("Validation", "Manifest relative_path mismatch")
          ELSE IF expected_relative_path \notin DOMAIN archive.tree
            THEN Err("Zip", "Missing archive file")
          ELSE
            Bind(archive.tree[expected_relative_path], LAMBDA bytes :
              IF Len(bytes) # file.size_bytes THEN Err("Validation", "File size mismatch")
              ELSE IF Len(bytes) = 0 \/ Len(bytes) > DEFAULT_MAX_FILE_SIZE_BYTES
                THEN Err("Validation", "exceeds allowed size limits.")
              ELSE IF total_size + Len(bytes) > DEFAULT_MAX_VERSION_SIZE_BYTES
                THEN Err("Validation", "Import file total exceeds")
              ELSE IF ~eq_ignore_ascii_case(sha256_hex(bytes), trim(file.sha256))
                THEN Err("Validation", "SHA256 mismatch")
              ELSE ImportFilesLoop_NoDuplicateCheck(archive, Tail(manifest_files),
                     Append(parsed_files,
                            [original_name |-> sanitized, mime |-> None, bytes |-> bytes]),
                     seen_names \cup {to_ascii_lowercase(sanitized)},
                     total_size + Len(bytes),
                     expected_paths \cup {expected_relative_path}))))))

RECURSIVE ImportFilesLoop(_, _, _, _, _, _)
\* The loop of import_tool_zip over the remaining manifest entries.
ImportFilesLoop(archive, manifest_files, parsed_files, seen_names, total_size, expected_paths) ==
  IF manifest_files = <<>>
    THEN Ok([parsed_files |-> parsed_files, expected_paths |-> expected_paths])
  ELSE
    Bind(Head(manifest_files), LAMBDA file :
    Try(assert_safe_archive_path(file.relative_path), LAMBDA safe :
      IF ~starts_with(file.relative_path, FILES_PREFIX)
        THEN Err("Zip", "Manifest file path must start with files/")
      ELSE
        Try(sanitize_filename(file.original_name), LAMBDA sanitized :
        Bind(FILES_PREFIX \o sanitized, LAMBDA expected_relative_path :
          IF to_ascii_lowercase(sanitized) \in seen_names
            THEN Err("Validation", "Duplicate file in manifest")
          ELSE IF file.relative_path # expected_relative_path
            THEN Err("Validation", "Manifest relative_path mismatch")
          ELSE IF expected_relative_path \notin DOMAIN archive.tree
            THEN Err("Zip", "Missing archive file")
          ELSE
            Bind(archive.tree[expected_relative_path], LAMBDA bytes :
              IF Len(bytes) # file.size_bytes THEN Err("Validation", "File size mismatch")
              ELSE IF Len(bytes) = 0 \/ Len(bytes) > DEFAULT_MAX_FILE_SIZE_BYTES
                THEN Err("Validation", "exceeds allowed size limits.")
              ELSE IF total_size + Len(bytes) > DEFAULT_MAX_VERSION_SIZE_BYTES
                THEN Err("Validation", "Import file total exceeds")
              ELSE IF ~eq_ignore_ascii_case(sha256_hex(bytes), trim(file.sha256))
                THEN Err("Validation", "SHA256 mismatch")
              ELSE ImportFilesLoop(archive, Tail(manifest_files),
                     Append(parsed_files,
                            [original_name |-> sanitized, mime |-> None, bytes |-> bytes]),
                     seen_names \cup {to_ascii_lowercase(sanitized)},
                     total_size + Len(bytes),
                     expected_paths \cup {expected_relative_path}))))))

\* import_tool_zip: the ParsedImportArchive of an archive
import_tool_zip(archive) ==
  Try(extract_zip_safely(archive), LAMBDA extracted :
  IF ~archive.manifest.some THEN Err("Zip", "Failed to read manifest.json")
  ELSE IF ~archive.instructions.some THEN Err("Zip", "Failed to read instructions.md")
  ELSE IF trim(archive.instructions.v) = <<>>
    THEN Err("Validation", "instructions.md cannot be empty.")
  ELSE
    Bind(archive.manifest.v, LAMBDA manifest :
    Try(validate_required("tool.name", manifest.tool.name, 120), LAMBDA name :
    Try(validate_required("tool.slug", manifest.tool.slug, 120), LAMBDA slug :
    Try(validate_required("tool.description", manifest.tool.description, 8000),
        LAMBDA description :
    Try(validate_required("tool.category", manifest.tool.category, 120), LAMBDA category :
    Try(validate_required("version.version", manifest.version.version, 80),
        LAMBDA version :
    Try(normalize_optional_text(manifest.version.changelog_md, 512 * 1024),
        LAMBDA changelog_md :
    Try(ImportFilesLoop(archive, manifest.files, <<>>, {}, 0,
                        {MANIFEST_JSON, INSTRUCTIONS_MD}), LAMBDA looped :
      IF \E entry \in collect_relative_files(archive) :
           entry \notin looped.expected_paths
        THEN Err("Zip", "Unexpected file in archive")
        ELSE Ok([metadata |-> [name |-> name,
                               slug |-> Some(slug),
                               description |-> description,
                               category |-> category,
                               tags |-> manifest.tool.tags],
                 version |-> [version |-> version,
                              changelog_md |-> changelog_md,
                              instructions_md |-> archive.instructions.v],
                 files |-> looped.parsed_files]))))))))))

\* to_inbound_files
to_inbound_files(parsed_files) ==
  [i \in DOMAIN parsed_files |->
     [original_name |-> parsed_files[i].original_name,
      mime |-> parsed_files[i].mime,
      data_base64 |-> base64_encode(parsed_files[i].bytes)]]

\* Faulty variant of to_db_file_rows: every row takes the digest of the first
\* staged file.
to_db_file_rows_FirstDigest(staged) ==
  [i \in DOMAIN staged |->
     [original_name |-> staged[i].original_name,
      stored_rel_path |-> staged[i].stored_rel_path,
      sha256 |-> staged[1].sha256,
      size_bytes |-> staged[i].size_bytes,
      mime |-> staged[i].mime]]

\* to_db_file_rows
to_db_file_rows(staged) ==
  [i \in DOMAIN staged |->
     [original_name |-> staged[i].original_name,
      stored_rel_path |-> staged[i].stored_rel_path,
      sha256 |-> staged[i].sha256,
      size_bytes |-> staged[i].size_bytes,
      mime |-> staged[i].mime]]

(***************************************************************************)
(* State.  The catalog is the four tables of db.rs (row identifiers of     *)
(* file rows and the timestamps are left out: no operation reads them      *)
(* back), the store is the tree under <app-data>, keyed by the normalized  *)
(* relative path.  `exported` is the archive at the export destination,    *)
(* kept with the fields of the version it was built from and the blobs     *)
(* that were read for it (history; only the properties read it).           *)
(* Every command runs as a task; a task's record holds the locals of the   *)
(* command between two of its suspension points.                           *)
(***************************************************************************)
VARIABLES tools, tags, versions, files, store, exported, task

vars == <<tools, tags, versions, files, store, exported, task>>

\* The number of identifiers Uuid::new_v4 can hand out at one time.
MaxUuids == 4

Tasks == {"t1", "t2"}

\* A version 4 UUID, written u1, u2, ...
Uuid(n) == <<"u">> \o DecimalDigits(n)

\* The identifiers that occur in the catalog, in the store or in a running task.
UsedUuids ==
  DOMAIN tools \cup DOMAIN versions
    \cup { split(p, "/")[2] : p \in DOMAIN store }
    \cup { split(p, "/")[3] : p \in DOMAIN store }
    \cup { task[t].tool_id : t \in { u \in Tasks : task[u].pc # "idle" } }
    \cup { task[t].version_id : t \in { u \in Tasks : task[u].pc # "idle" } }

FreeUuidNumbers == { n \in 1..MaxUuids : Uuid(n) \notin UsedUuids }

MinOf(S) == CHOOSE n \in S : \A m \in S : n <= m

\* Uuid::new_v4: an identifier that occurs nowhere
new_v4 == Uuid(MinOf(FreeUuidNumbers))

\* The second of two successive calls of Uuid::new_v4.
new_v4_second == Uuid(MinOf(FreeUuidNumbers \ {MinOf(FreeUuidNumbers)}))

NoResult == [ok |-> TRUE, kind |-> "None", msg |-> "", val |-> <<>>]

NoMetadata ==
  [name |-> <<>>, slug |-> None, description |-> <<>>, category |-> <<>>, tags |-> <<>>]

NoVersionInput == [version |-> <<>>, changelog_md |-> None, instructions_md |-> <<>>]

NoArchive == [manifest |-> None, instructions |-> None, tree |-> <<>>]

NoContext ==
  [tool |-> NoMetadata,
   version |-> [id |-> <<>>, tool_id |-> <<>>, version |-> <<>>,
                changelog_md |-> None, instructions_md |-> <<>>],
   files |-> <<>>]

NoRow ==
  [name |-> <<>>, slug |-> <<>>, description |-> <<>>, category |-> <<>>,
   tags |-> <<>>, version |-> <<>>, changelog_md |-> None, instructions_md |-> <<>>]

IdleTask ==
  [pc |-> "idle", op |-> "none", tool_id |-> <<>>, version_id |-> <<>>,
   metadata |-> NoMetadata, version |-> NoVersionInput, inbound |-> <<>>,
   staged |-> <<>>, written |-> <<>>, idx |-> 0, created_tool |-> FALSE,
   base |-> <<>>, candidate |-> <<>>, counter |-> 0, row |-> NoRow,
   archive |-> NoArchive, context |-> NoContext,
   input |-> <<>>, first |-> NoResult,
   scratch |-> {}, zip_file_name |-> <<>>,
   catalog_error |-> FALSE, result |-> NoResult]

Init ==
  /\ tools = <<>>
  /\ tags = {}
  /\ versions = <<>>
  /\ files = {}
  /\ store = <<>>
  /\ exported = None
  /\ task = [t \in Tasks |-> IdleTask]

\* The command returns `result` to the caller (run: the error as its message).
Finish(record, result) == [record EXCEPT !.pc = "done", !.result = result]

(***************************************************************************)
(* The schema of the catalog (migrations 0012 and 0013): slug is UNIQUE,   *)
(* (tool_id, version) is UNIQUE, the identifiers are primary keys, and the *)
(* foreign keys of tags, versions and files cascade on delete.             *)
(***************************************************************************)
\* INSERT INTO custom_library_tools: primary key and UNIQUE(slug)
ToolInsertAllowed(tool_id, slug) ==
  /\ tool_id \notin DOMAIN tools
  /\ \A id \in DOMAIN tools : tools[id].slug # slug

\* INSERT INTO custom_library_tool_versions against an existing tool:
\* primary key, foreign key and UNIQUE(tool_id, version)
VersionInsertAllowed(tool_id, version_id, version_label) ==
  /\ version_id \notin DOMAIN versions
  /\ tool_id \in DOMAIN tools
  /\ \A id \in DOMAIN versions :
       ~(versions[id].tool_id = tool_id /\ versions[id].version = version_label)

\* ON DELETE CASCADE: the versions that go with the row of a tool.
CascadedVersions(tool_id) ==
  { id \in DOMAIN versions : versions[id].tool_id = tool_id }

\* The rows insert_files adds for one version.
FileRows(version_id, file_rows) ==
  { [tool_version_id |-> version_id,
     original_name |-> file_rows[i].original_name,
     stored_rel_path |-> file_rows[i].stored_rel_path,
     sha256 |-> file_rows[i].sha256,
     size_bytes |-> file_rows[i].size_bytes,
     mime |-> file_rows[i].mime] : i \in DOMAIN file_rows }

\* find_tool_id_by_slug
find_tool_id_by_slug(slug) ==
  IF \E id \in DOMAIN tools : tools[id].slug = slug
    THEN Some(CHOOSE id \in DOMAIN tools : tools[id].slug = slug)
    ELSE None

\* Faulty variant of find_version_id: no version is found.
find_version_id_None(tool_id, version_label) == None

\* find_version_id
find_version_id(tool_id, version_label) ==
  IF \E id \in DOMAIN versions :
       versions[id].tool_id = tool_id /\ versions[id].version = version_label
    THEN Some(CHOOSE id \in DOMAIN versions :
                versions[id].tool_id = tool_id /\ versions[id].version = version_label)
    ELSE None

\* From<sqlx::Error> for ToolsError
FromSqlxError(detail) == Err("Database", detail)

\* From<std::io::Error> for ToolsError
FromIoError == Err("Io", "File operation failed")

(***************************************************************************)
(* commands.rs: tool_create and tool_add_version up to the staged files.   *)
(***************************************************************************)
DEFAULT_INITIAL_VERSION == <<"1", ".", "0", ".", "0">>

\* The task after stage_inbound_files: the error returns, or the loop of
\* write_staged_files follows (over no file, the catalog call comes next).
AfterStage(record, staged) ==
  IF ~staged.ok THEN Finish(record, staged)
  ELSE [record EXCEPT !.staged = staged.val, !.idx = 1,
                      !.pc = IF staged.val # <<>> THEN "write"
                             ELSE IF record.created_tool THEN "create_slug"
                             ELSE "add_exists"]

\* tool_create: fresh identifiers, then stage_inbound_files
ToolCreateBegin(t, request) ==
  /\ task[t].pc = "idle"
  /\ Cardinality(FreeUuidNumbers) >= 2
  /\ \E tool_id \in {new_v4}, version_id \in {new_v4_second} :
       task' = [task EXCEPT ![t] =
         AfterStage([IdleTask EXCEPT
                       !.op = "tool_create",
                       !.tool_id = tool_id,
                       !.version_id = version_id,
                       !.created_tool = TRUE,
                       !.metadata = request.metadata,
                       !.version =
                         [version |-> IF request.version.some THEN request.version.v
                                      ELSE DEFAULT_INITIAL_VERSION,
                          changelog_md |-> request.changelog_md,
                          instructions_md |-> request.instructions_md],
                       !.inbound = request.files],
           stage_inbound_files(tool_id, version_id, request.files, FileLimitsDefault))]
  /\ UNCHANGED <<tools, tags, versions, files, store, exported>>

\* tool_add_version: the trimmed tool_id, a fresh version_id, then staging
ToolAddVersionBegin(t, request) ==
  /\ task[t].pc = "idle"
  /\ Cardinality(FreeUuidNumbers) >= 1
  /\ \E tool_id \in {trim(request.tool_id)}, version_id \in {new_v4} :
       \E record \in {[IdleTask EXCEPT
                         !.op = "tool_add_version",
                         !.tool_id = tool_id,
                         !.version =
                           [version |-> request.version,
                            changelog_md |-> request.changelog_md,
                            instructions_md |-> request.instructions_md],
                         !.inbound = request.files]} :
         task' = [task EXCEPT ![t] =
           IF tool_id = <<>>
             THEN Finish(record, Err("Validation", "tool_id is required."))
             ELSE AfterStage([record EXCEPT !.version_id = version_id],
                    stage_inbound_files(tool_id, version_id, request.files,
                                        FileLimitsDefault))]
  /\ UNCHANGED <<tools, tags, versions, files, store, exported>>

(***************************************************************************)
(* storage.rs: write_staged_files and remove_written_files, one file       *)
(* system call per step.                                                   *)
(***************************************************************************)
\* Faulty variant of the loop of write_staged_files: the catalog call
\* follows the first write.
WriteStagedFile_CatalogAfterFirst(t) ==
  /\ task[t].pc = "write"
  /\ \E file \in {task[t].staged[task[t].idx]} :
       \E absolute_path \in {resolve_stored_path(file.stored_rel_path)} :
         /\ absolute_path.ok
         /\ store' = Put(store, absolute_path.val, file.bytes)
         /\ task' = [task EXCEPT ![t] =
              [@ EXCEPT !.written = Append(@, absolute_path.val),
                        !.idx = @ + 1,
                        !.pc = IF task[t].created_tool THEN "create_slug"
                               ELSE "add_exists"]]
  /\ UNCHANGED <<tools, tags, versions, files, exported>>

\* One round of the loop of write_staged_files whose fs::write succeeds.
WriteStagedFile(t) ==
  /\ task[t].pc = "write"
  /\ \E file \in {task[t].staged[task[t].idx]} :
       \E absolute_path \in {resolve_stored_path(file.stored_rel_path)} :
         /\ absolute_path.ok
         /\ store' = Put(store, absolute_path.val, file.bytes)
         /\ task' = [task EXCEPT ![t] =
              [@ EXCEPT !.written = Append(@, absolute_path.val),
                        !.idx = @ + 1,
                        !.pc = IF task[t].idx < Len(task[t].staged) THEN "write"
                               ELSE IF task[t].created_tool THEN "create_slug"
                               ELSE "add_exists"]]
  /\ UNCHANGED <<tools, tags, versions, files, exported>>

\* One round of the loop of write_staged_files that fails (resolve_stored_path,
\* create_dir_all or fs::write): `?` returns the error from the command at once.
WriteStagedFileFails(t) ==
  /\ task[t].pc = "write"
  /\ \E absolute_path \in {resolve_stored_path(task[t].staged[task[t].idx].stored_rel_path)} :
       task' = [task EXCEPT ![t] =
                  Finish(@, IF absolute_path.ok THEN FromIoError ELSE absolute_path)]
  /\ UNCHANGED <<tools, tags, versions, files, store, exported>>

\* The catalog call returned `error`: remove_written_files follows, then the
\* error returns.
CatalogError(record, error) ==
  [record EXCEPT !.pc = IF record.written # <<>> THEN "rollback" ELSE "done",
                 !.idx = 1, !.catalog_error = TRUE, !.result = error]

\* Faulty variant of remove_file: the file stays.
remove_file_Kept(blobs, path) == blobs

\* fs::remove_file of remove_written_files (its result is dropped)
remove_file(blobs, path) == Without(blobs, {path})

\* Faulty variant of remove_written_files: the whole folder of the tool is
\* removed.
RemoveWrittenFile_ToolFolder(t) ==
  /\ task[t].pc = "rollback"
  /\ store' = Without(store,
       { p \in DOMAIN store :
           starts_with(p, Concat(<<STORAGE_ROOT_SEGMENT, <<"/">>, task[t].tool_id, <<"/">>>>)) })
  /\ task' = [task EXCEPT ![t] =
       [@ EXCEPT !.idx = @ + 1,
                 !.pc = IF task[t].idx < Len(task[t].written) THEN "rollback" ELSE "done"]]
  /\ UNCHANGED <<tools, tags, versions, files, exported>>

\* One round of the loop of remove_written_files; after the last one the
\* command returns the catalog's error.
RemoveWrittenFile(t) ==
  /\ task[t].pc = "rollback"
  /\ store' = remove_file(store, task[t].written[task[t].idx])
  /\ task' = [task EXCEPT ![t] =
       [@ EXCEPT !.idx = @ + 1,
                 !.pc = IF task[t].idx < Len(task[t].written) THEN "rollback" ELSE "done"]]
  /\ UNCHANGED <<tools, tags, versions, files, exported>>

(***************************************************************************)
(* db.rs: create_tool_with_version, one database call per step.            *)
(***************************************************************************)
\* The validation that opens create_tool_with_version: the tool's fields
\* and the requested slug.
CreatePrelude(metadata) ==
  Try(validate_required("name", metadata.name, 120), LAMBDA name :
  Try(validate_required("description", metadata.description, 8000), LAMBDA description :
  Try(validate_required("category", metadata.category, 120), LAMBDA category :
  Try(normalize_tags(metadata.tags), LAMBDA normalized_tags :
    Ok([name |-> name,
        description |-> description,
        category |-> category,
        tags |-> normalized_tags,
        requested_slug |->
          IF metadata.slug.some /\ trim(metadata.slug.v) # <<>>
            THEN trim(metadata.slug.v)
            ELSE slugify(name)])))))

\* The validation of the version's fields (create_tool_with_version after the
\* slug, add_version_with_files after the tool was found).
VersionFields(version) ==
  Try(validate_required("version", version.version, 80), LAMBDA version_label :
  Try(validate_required("instructions", version.instructions_md, 512 * 1024),
      LAMBDA instructions :
  Try(normalize_optional_text(version.changelog_md, 512 * 1024), LAMBDA changelog :
    Ok([version |-> version_label,
        instructions_md |-> instructions,
        changelog_md |-> changelog]))))

\* Faulty variant of NextCandidate: the suffix is one too large.
NextCandidate_Skip(base, counter) ==
  Concat(<<base, <<"-">>, DecimalDigits(counter + 1)>>)

\* resolve_unique_slug: the candidate of the round after `candidate`
NextCandidate(base, counter) == Concat(<<base, <<"-">>, DecimalDigits(counter)>>)

\* resolve_unique_slug: the SELECT of one round of the loop
SlugExists(candidate) == \E id \in DOMAIN tools : tools[id].slug = candidate

\* One round of the loop of resolve_unique_slug for `candidate`: taken, the
\* next candidate; free, the validation of the version's fields follows.
CreateSlugRound(record, base, candidate, counter, row, fields) ==
  IF SlugExists(candidate)
    THEN [record EXCEPT !.base = base,
                        !.candidate = NextCandidate(base, counter),
                        !.counter = counter + 1,
                        !.row = row]
  ELSE IF ~fields.ok THEN CatalogError(record, fields)
  ELSE [record EXCEPT !.pc = "create_tx",
                      !.base = base,
                      !.candidate = candidate,
                      !.counter = counter,
                      !.row = [row EXCEPT !.slug = candidate,
                                          !.version = fields.val.version,
                                          !.instructions_md = fields.val.instructions_md,
                                          !.changelog_md = fields.val.changelog_md]]

\* create_tool_with_version up to and including one SELECT of
\* resolve_unique_slug (the first round follows the validation of the tool's
\* fields; the round that finds the candidate free goes on to validate the
\* version's fields).
CreateResolveSlug(t) ==
  /\ task[t].pc = "create_slug"
  /\ \E first \in {task[t].counter = 0}, prelude \in {CreatePrelude(task[t].metadata)},
        fields \in {VersionFields(task[t].version)} :
       task' = [task EXCEPT ![t] =
         IF first /\ ~prelude.ok THEN CatalogError(@, prelude)
         ELSE
           LET base == IF first THEN slugify(prelude.val.requested_slug) ELSE task[t].base
               counter == IF first THEN 2 ELSE task[t].counter
               row == IF first
                        THEN [NoRow EXCEPT !.name = prelude.val.name,
                                           !.description = prelude.val.description,
                                           !.category = prelude.val.category,
                                           !.tags = prelude.val.tags]
                        ELSE task[t].row
           IN CreateSlugRound(@, base, IF first THEN base ELSE task[t].candidate,
                              counter, row, fields)]
  /\ UNCHANGED <<tools, tags, versions, files, store, exported>>

\* The transaction of create_tool_with_version commits: the tool, its tags,
\* the version and the file rows.
CreateCommit(t) ==
  /\ task[t].pc = "create_tx"
  /\ ToolInsertAllowed(task[t].tool_id, task[t].row.slug)
  /\ task[t].version_id \notin DOMAIN versions
  /\ tools' = Put(tools, task[t].tool_id,
                  [name |-> task[t].row.name, slug |-> task[t].row.slug,
                   description |-> task[t].row.description,
                   category |-> task[t].row.category])
  /\ tags' = tags \cup { [tool_id |-> task[t].tool_id, tag |-> task[t].row.tags[i]] :
                          i \in DOMAIN task[t].row.tags }
  /\ versions' = Put(versions, task[t].version_id,
                     [tool_id |-> task[t].tool_id, version |-> task[t].row.version,
                      changelog_md |-> task[t].row.changelog_md,
                      instructions_md |-> task[t].row.instructions_md])
  /\ files' = files \cup FileRows(task[t].version_id, to_db_file_rows(task[t].staged))
  /\ task' = [task EXCEPT ![t] =
                Finish(@, Ok([tool_id |-> task[t].tool_id,
                              version_id |-> task[t].version_id]))]
  /\ UNCHANGED <<store, exported>>

\* A statement of the transaction of create_tool_with_version fails (a
\* constraint of the schema, or the database itself): the transaction is
\* dropped and `?` converts the sqlx::Error.
CreateFails(t) ==
  /\ task[t].pc = "create_tx"
  /\ task' = [task EXCEPT ![t] =
       CatalogError(@,
         FromSqlxError(
           IF ToolInsertAllowed(task[t].tool_id, task[t].row.slug)
             THEN "Database operation failed"
             ELSE "Database operation failed: UNIQUE constraint failed"))]
  /\ UNCHANGED <<tools, tags, versions, files, store, exported>>

(***************************************************************************)
(* db.rs: add_version_with_files, one database call per step.              *)
(***************************************************************************)
\* The SELECT for the tool, then the validation of the version's fields.
AddVersionToolExists(t) ==
  /\ task[t].pc = "add_exists"
  /\ \E fields \in {VersionFields(task[t].version)} :
     task' = [task EXCEPT ![t] =
       IF task[t].tool_id \notin DOMAIN tools
         THEN CatalogError(@, Err("NotFound", "Tool not found."))
       ELSE IF ~fields.ok THEN CatalogError(@, fields)
       ELSE [@ EXCEPT !.pc = "add_find",
                      !.row = [NoRow EXCEPT !.version = fields.val.version,
                                            !.instructions_md = fields.val.instructions_md,
                                            !.changelog_md = fields.val.changelog_md]]]
  /\ UNCHANGED <<tools, tags, versions, files, store, exported>>

\* Faulty variant of AddVersionFindVersion: the label is not looked up.
AddVersionFindVersion_NoLookup(t) ==
  /\ task[t].pc = "add_find"
  /\ task' = [task EXCEPT ![t].pc = "add_tx"]
  /\ UNCHANGED <<tools, tags, versions, files, store, exported>>

\* find_version_id for the label: Conflict when the tool has it.
AddVersionFindVersion(t) ==
  /\ task[t].pc = "add_find"
  /\ task' = [task EXCEPT ![t] =
       IF find_version_id(task[t].tool_id, task[t].row.version).some
         THEN CatalogError(@, Err("Conflict", "Version already exists for this tool."))
         ELSE [@ EXCEPT !.pc = "add_tx"]]
  /\ UNCHANGED <<tools, tags, versions, files, store, exported>>

\* A transaction that would also overwrite the tool's name with the one of
\* the imported manifest.
AddVersionCommit_OverwritesTool(t) ==
  /\ task[t].pc = "add_tx"
  /\ VersionInsertAllowed(task[t].tool_id, task[t].version_id, task[t].row.version)
  /\ versions' = Put(versions, task[t].version_id,
                     [tool_id |-> task[t].tool_id, version |-> task[t].row.version,
                      changelog_md |-> task[t].row.changelog_md,
                      instructions_md |-> task[t].row.instructions_md])
  /\ files' = files \cup FileRows(task[t].version_id, to_db_file_rows(task[t].staged))
  /\ tools' = IF task[t].op = "tool_import_zip"
                THEN [tools EXCEPT ![task[t].tool_id].name = task[t].metadata.name]
                ELSE tools
  /\ task' = [task EXCEPT ![t] =
                Finish(@, Ok([tool_id |-> task[t].tool_id,
                              version_id |-> task[t].version_id]))]
  /\ UNCHANGED <<tags, store, exported>>

\* The transaction of add_version_with_files commits: the version and the
\* file rows (the UPDATE sets the tool's updated_at only).
AddVersionCommit(t) ==
  /\ task[t].pc = "add_tx"
  /\ VersionInsertAllowed(task[t].tool_id, task[t].version_id, task[t].row.version)
  /\ versions' = Put(versions, task[t].version_id,
                     [tool_id |-> task[t].tool_id, version |-> task[t].row.version,
                      changelog_md |-> task[t].row.changelog_md,
                      instructions_md |-> task[t].row.instructions_md])
  /\ files' = files \cup FileRows(task[t].version_id, to_db_file_rows(task[t].staged))
  /\ task' = [task EXCEPT ![t] =
                Finish(@, Ok([tool_id |-> task[t].tool_id,
                              version_id |-> task[t].version_id]))]
  /\ UNCHANGED <<tools, tags, store, exported>>

\* A statement of the transaction of add_version_with_files fails.
AddVersionFails(t) ==
  /\ task[t].pc = "add_tx"
  /\ task' = [task EXCEPT ![t] =
       CatalogError(@,
         FromSqlxError(
           IF VersionInsertAllowed(task[t].tool_id, task[t].version_id, task[t].row.version)
             THEN "Database operation failed"
           ELSE IF task[t].tool_id \notin DOMAIN tools
             THEN "Database operation failed: FOREIGN KEY constraint failed"
           ELSE "Database operation failed: UNIQUE constraint failed"))]
  /\ UNCHANGED <<tools, tags, versions, files, store, exported>>

(***************************************************************************)
(* commands.rs: tool_delete.                                               *)
(***************************************************************************)
\* Faulty variant of delete_tool: rows_affected is not looked at.
ToolDeleteRows_IgnoresRowsAffected(t, tool_id) ==
  /\ task[t].pc = "idle"
  /\ LET trimmed_tool_id == trim(tool_id)
         record == [IdleTask EXCEPT !.op = "tool_delete", !.tool_id = trimmed_tool_id]
         gone == CascadedVersions(trimmed_tool_id)
     IN /\ tools' = Without(tools, {trimmed_tool_id})
        /\ tags' = { r \in tags : r.tool_id # trimmed_tool_id }
        /\ versions' = Without(versions, gone)
        /\ files' = { r \in files : r.tool_version_id \notin gone }
        /\ task' = [task EXCEPT ![t] = [record EXCEPT !.pc = "delete_folder"]]
  /\ UNCHANGED <<store, exported>>

\* delete_tool: DELETE of the tool's row; the foreign keys cascade to its
\* tags, versions and file rows.  NotFound when no row was affected.
ToolDeleteRows(t, tool_id) ==
  /\ task[t].pc = "idle"
  /\ LET trimmed_tool_id == trim(tool_id)
         record == [IdleTask EXCEPT !.op = "tool_delete", !.tool_id = trimmed_tool_id]
         gone == CascadedVersions(trimmed_tool_id)
     IN IF trimmed_tool_id \in DOMAIN tools
          THEN /\ tools' = Without(tools, {trimmed_tool_id})
               /\ tags' = { r \in tags : r.tool_id # trimmed_tool_id }
               /\ versions' = Without(versions, gone)
               /\ files' = { r \in files : r.tool_version_id \notin gone }
               /\ task' = [task EXCEPT ![t] = [record EXCEPT !.pc = "delete_folder"]]
          ELSE /\ task' = [task EXCEPT ![t] =
                             Finish(record, Err("NotFound", "Tool not found."))]
               /\ UNCHANGED <<tools, tags, versions, files>>
  /\ UNCHANGED <<store, exported>>

\* Faulty variant of ToolFolder: the folder holds nothing.
ToolFolder_Empty(tool_id) == {}

\* The paths of the store under tools/<tool_id>.
ToolFolder(tool_id) ==
  { p \in DOMAIN store :
      starts_with(p, Concat(<<STORAGE_ROOT_SEGMENT, <<"/">>, tool_id, <<"/">>>>)) }

\* Faulty variant of delete_tool_folder: only the blobs of the file records of
\* the catalog are removed.
DeleteToolFolder_RecordedOnly(t) ==
  /\ task[t].pc = "delete_folder"
  /\ store' = Without(store, { r.stored_rel_path : r \in files })
  /\ task' = [task EXCEPT ![t] = Finish(@, Ok(<<>>))]
  /\ UNCHANGED <<tools, tags, versions, files, exported>>

\* delete_tool_folder: remove_dir_all of the tool's folder, when it exists
DeleteToolFolder(t) ==
  /\ task[t].pc = "delete_folder"
  /\ \E safe_tool_id \in {validate_storage_segment("tool_id", task[t].tool_id)} :
     IF safe_tool_id.ok
       THEN /\ store' = Without(store, ToolFolder(safe_tool_id.val))
            /\ task' = [task EXCEPT ![t] = Finish(@, Ok(<<>>))]
       ELSE /\ store' = store
            /\ task' = [task EXCEPT ![t] = Finish(@, safe_tool_id)]
  /\ UNCHANGED <<tools, tags, versions, files, exported>>

\* delete_tool_folder whose remove_dir_all fails: the error is returned (the
\* model leaves every blob of the folder in place).
DeleteToolFolderFails(t) ==
  /\ task[t].pc = "delete_folder"
  /\ ToolFolder(task[t].tool_id) # {}
  /\ task' = [task EXCEPT ![t] = Finish(@, FromIoError)]
  /\ UNCHANGED <<tools, tags, versions, files, store, exported>>

(***************************************************************************)
(* commands.rs: tool_export_zip.                                           *)
(***************************************************************************)
RECURSIVE SortTagsNoCase(_)
\* ORDER BY tag COLLATE NOCASE ASC
SortTagsNoCase(S) ==
  IF S = {} THEN <<>>
  ELSE LET m == CHOOSE x \in S :
                  \A y \in S : ~StrLess(to_ascii_lowercase(y), to_ascii_lowercase(x))
       IN <<m>> \o SortTagsNoCase(S \ {m})

\* fetch_tags
fetch_tags(tool_id) == SortTagsNoCase({ r.tag : r \in { x \in tags : x.tool_id = tool_id } })

RECURSIVE SortFilesNoCase(_)
\* ORDER BY original_name COLLATE NOCASE ASC
SortFilesNoCase(S) ==
  IF S = {} THEN <<>>
  ELSE LET m == CHOOSE x \in S :
                  \A y \in S : ~StrLess(to_ascii_lowercase(y.original_name),
                                        to_ascii_lowercase(x.original_name))
       IN <<m>> \o SortFilesNoCase(S \ {m})

\* fetch_files_for_version
fetch_files_for_version(version_id) ==
  SortFilesNoCase({ r \in files : r.tool_version_id = version_id })

\* get_export_context of an existing version
get_export_context(version_id) ==
  LET version == versions[version_id]
      tool == tools[version.tool_id]
  IN [tool |-> [name |-> tool.name, slug |-> tool.slug,
                description |-> tool.description, category |-> tool.category,
                tags |-> fetch_tags(version.tool_id)],
      version |-> [id |-> version_id, tool_id |-> version.tool_id,
                   version |-> version.version,
                   changelog_md |-> version.changelog_md,
                   instructions_md |-> version.instructions_md],
      files |-> fetch_files_for_version(version_id)]

\* tool_export_zip: get_export_context, NotFound for an unknown version
ToolExportContext(t, tool_version_id) ==
  /\ task[t].pc = "idle"
  /\ LET version_id == trim(tool_version_id)
         record == [IdleTask EXCEPT !.op = "tool_export_zip", !.version_id = version_id]
     IN task' = [task EXCEPT ![t] =
          IF version_id \in DOMAIN versions
            THEN [record EXCEPT !.pc = "export_zip",
                                !.tool_id = versions[version_id].tool_id,
                                !.context = get_export_context(version_id)]
            ELSE Finish(record, Err("NotFound", "Tool version not found."))]
  /\ UNCHANGED <<tools, tags, versions, files, store, exported>>

\* What the exported version was when the archive was written: the fields of
\* the ExportContext and, for every file row, the blob read from the store.
ExportedSource(context) ==
  [tool |-> context.tool,
   version |-> [version |-> context.version.version,
                changelog_md |-> context.version.changelog_md,
                instructions_md |-> context.version.instructions_md],
   files |-> { [original_name |-> context.files[i].original_name,
                size_bytes |-> context.files[i].size_bytes,
                sha256 |-> context.files[i].sha256,
                bytes |-> store[context.files[i].stored_rel_path]] :
               i \in DOMAIN context.files }]

\* tool_export_zip: export_tool_version_zip writes the destination archive
ToolExportZip(t) ==
  /\ task[t].pc = "export_zip"
  /\ \E archive \in {export_tool_version_zip(store, task[t].context)} :
     IF archive.ok
       THEN /\ exported' = Some([archive |-> archive.val,
                                  source |-> ExportedSource(task[t].context)])
            /\ task' = [task EXCEPT ![t] = Finish(@, Ok(<<>>))]
       ELSE /\ exported' = exported
            /\ task' = [task EXCEPT ![t] = Finish(@, archive)]
  /\ UNCHANGED <<tools, tags, versions, files, store>>

(***************************************************************************)
(* commands.rs: tool_import_zip and import_parsed_archive.                 *)
(***************************************************************************)
\* tool_import_zip: import_tool_zip parses the archive
ToolImportParse(t, archive) ==
  /\ task[t].pc = "idle"
  /\ Cardinality(FreeUuidNumbers) >= 2
  /\ \E parsed \in {import_tool_zip(archive)} :
       \E record \in {[IdleTask EXCEPT !.op = "tool_import_zip", !.archive = archive]} :
         task' = [task EXCEPT ![t] =
           IF parsed.ok
             THEN [record EXCEPT !.pc = "import_find_tool",
                                 !.metadata = parsed.val.metadata,
                                 !.version = parsed.val.version,
                                 !.inbound = to_inbound_files(parsed.val.files)]
             ELSE Finish(record, parsed)]
  /\ UNCHANGED <<tools, tags, versions, files, store, exported>>

\* import_parsed_archive: find_tool_id_by_slug; for a new tool, the fresh
\* identifiers and the staging of the create branch
ImportFindTool(t) ==
  /\ task[t].pc = "import_find_tool"
  /\ \E existing_tool_id \in {find_tool_id_by_slug(task[t].metadata.slug.v)},
        tool_id \in {new_v4}, version_id \in {new_v4_second} :
     task' = [task EXCEPT ![t] =
       IF existing_tool_id.some
         THEN [@ EXCEPT !.pc = "import_find_version", !.tool_id = existing_tool_id.v]
         ELSE AfterStage([@ EXCEPT !.tool_id = tool_id,
                                   !.version_id = version_id,
                                   !.created_tool = TRUE],
                stage_inbound_files(tool_id, version_id, task[t].inbound,
                                    FileLimitsDefault))]
  /\ UNCHANGED <<tools, tags, versions, files, store, exported>>

\* import_parsed_archive: find_version_id, Conflict when the tool has the
\* label; else the fresh version_id and the staging of the add-version branch
ImportFindVersion(t) ==
  /\ task[t].pc = "import_find_version"
  /\ \E version_id \in {new_v4} :
     task' = [task EXCEPT ![t] =
       IF find_version_id(task[t].tool_id, task[t].version.version).some
         THEN Finish(@, Err("Conflict",
                "A tool with this slug and version already exists. Import aborted."))
         ELSE AfterStage([@ EXCEPT !.version_id = version_id],
                stage_inbound_files(task[t].tool_id, version_id, task[t].inbound,
                                    FileLimitsDefault))]
  /\ UNCHANGED <<tools, tags, versions, files, store, exported>>

\* tool_import_zip of the archive at the export destination
ToolImportExported(t) ==
  /\ exported.some
  /\ ToolImportParse(t, exported.v.archive)

\* The command has returned; the task is free for the next command.
Return(t) ==
  /\ task[t].pc = "done"
  /\ task' = [task EXCEPT ![t] = IdleTask]
  /\ UNCHANGED <<tools, tags, versions, files, store, exported>>

(***************************************************************************)
(* The commands the front end issues.                                      *)
(***************************************************************************)
TextCad == <<"C", "a", "d">>

Label100 == <<"1", ".", "0", ".", "0">>

Label20 == <<"2", ".", "0">>

BytesHk == <<72, 107>>

BytesOne == <<1>>

InboundUpper ==
  [original_name |-> <<" ", "A", ".", "T", "X", "T", " ">>, mime |-> None,
   data_base64 |-> base64_encode(BytesHk)]

InboundLower ==
  [original_name |-> <<"a", ".", "t", "x", "t">>, mime |-> Some(<<"t">>),
   data_base64 |-> base64_encode(BytesOne)]

InboundScr ==
  [original_name |-> <<"b", ".", "s", "c", "r">>, mime |-> None,
   data_base64 |-> base64_encode(BytesHk)]

\* tool_create: name-derived slug, tags that repeat up to case, the default
\* version label, a blank changelog and two files whose names collide.
CreateCad ==
  [metadata |-> [name |-> <<" ">> \o TextCad \o <<" ">>, slug |-> None,
                 description |-> <<"d">>, category |-> <<"c">>,
                 tags |-> << <<" ", "B", " ">>, <<"b">>, <<"a">> >>],
   version |-> None, changelog_md |-> Some(<<" ">>),
   instructions_md |-> <<" ", "i", " ">>,
   files |-> <<InboundUpper, InboundLower>>]

\* tool_create: a requested slug that slugifies to the one CreateCad derives.
CreateCadAgain ==
  [metadata |-> [name |-> <<"X">>, slug |-> Some(<<" ">> \o TextCad \o <<"!">>),
                 description |-> <<"e">>, category |-> <<"c">>, tags |-> <<>>],
   version |-> Some(Label20), changelog_md |-> Some(<<"n">>),
   instructions_md |-> <<"j">>,
   files |-> <<InboundScr>>]

\* tool_create without files.
CreateNoFiles == [CreateCad EXCEPT !.files = <<>>]

\* tool_create with a blank name: the catalog call rejects it.
CreateBlankName == [CreateCadAgain EXCEPT !.metadata.name = <<" ">>]

\* tool_create with a requested slug of 121 characters.
CreateLongSlug ==
  [CreateCadAgain EXCEPT !.metadata.slug = Some([i \in 1..121 |-> "a"])]

CreateRequests == {CreateCad, CreateCadAgain, CreateNoFiles, CreateBlankName, CreateLongSlug}

AddVersionRequests ==
  { [tool_id |-> <<" ">> \o Uuid(1) \o <<" ">>, version |-> <<" ">> \o Label100,
     changelog_md |-> None, instructions_md |-> <<"k">>, files |-> <<InboundScr>>],
    [tool_id |-> Uuid(1), version |-> Label20,
     changelog_md |-> Some(<<"n">>), instructions_md |-> <<"k">>,
     files |-> <<InboundScr, InboundLower>>],
    [tool_id |-> Uuid(3), version |-> Label20,
     changelog_md |-> None, instructions_md |-> <<"k">>, files |-> <<InboundLower>>],
    [tool_id |-> <<" ">>, version |-> Label20,
     changelog_md |-> None, instructions_md |-> <<"k">>, files |-> <<InboundLower>>],
    [tool_id |-> Uuid(1), version |-> Label20,
     changelog_md |-> None, instructions_md |-> <<"k">>, files |-> <<>>] }

DeleteRequests == {Uuid(1), <<" ">> \o Uuid(3)}

ManifestEntry(name, bytes) ==
  [original_name |-> name, sha256 |-> sha256_hex(bytes), size_bytes |-> Len(bytes),
   relative_path |-> FILES_PREFIX \o name]

NameB == <<"b", ".", "t", "x", "t">>

\* A well-formed archive for the slug "cad", version 1.0.0, its digest in
\* upper case.
ArchiveCad ==
  [manifest |-> Some([tool |-> [name |-> TextCad, slug |-> <<"c", "a", "d">>,
                                description |-> <<"d">>, category |-> <<"c">>,
                                tags |-> << <<"z">> >>],
                      version |-> [version |-> Label100, changelog_md |-> None],
                      files |-> << [ManifestEntry(NameB, BytesHk) EXCEPT
                                      !.sha256 = to_ascii_uppercase(@)] >>]),
   instructions |-> Some(<<"i">>),
   tree |-> [n \in {FILES_PREFIX \o NameB} |-> BytesHk]]

\* The same for version 2.0.
ArchiveCad20 == [ArchiveCad EXCEPT !.manifest.v.version.version = Label20]

\* The digest of the manifest entry is not the digest of the file.
ArchiveBadSha ==
  [ArchiveCad20 EXCEPT !.manifest.v.files[1].sha256 =
                         <<"d", "e", "a", "d", "b", "e", "e", "f">>]

\* The size of the manifest entry is not the size of the file.
ArchiveBadSize == [ArchiveCad20 EXCEPT !.manifest.v.files[1].size_bytes = 5]

\* A file of the tree that no manifest entry names.
ArchiveExtra ==
  [ArchiveCad20 EXCEPT !.tree =
     [n \in {FILES_PREFIX \o NameB, FILES_PREFIX \o <<"x", ".", "t", "x", "t">>} |-> BytesHk]]

\* A tag longer than the catalog accepts: the catalog call rejects it.
ArchiveLongTag ==
  [ArchiveCad20 EXCEPT !.manifest.v.tool.slug = <<"p">>,
                       !.manifest.v.tool.tags = << [i \in 1..49 |-> "t"] >>]

\* No manifest entry and no file.
ArchiveNoFiles ==
  [ArchiveCad20 EXCEPT !.manifest.v.files = <<>>, !.tree = <<>>]

ImportArchives ==
  {ArchiveCad, ArchiveCad20, ArchiveBadSha, ArchiveBadSize, ArchiveExtra, ArchiveLongTag,
   ArchiveNoFiles}

(***************************************************************************)
(* The steps a running ingest command (tool_create, tool_add_version,      *)
(* tool_import_zip after its parse) takes to its return.                   *)
(***************************************************************************)
IngestStep(t) ==
  \/ WriteStagedFile(t)
  \/ WriteStagedFileFails(t)
  \/ RemoveWrittenFile(t)
  \/ CreateResolveSlug(t)
  \/ CreateCommit(t)
  \/ CreateFails(t)
  \/ AddVersionToolExists(t)
  \/ AddVersionFindVersion(t)
  \/ AddVersionCommit(t)
  \/ AddVersionFails(t)
  \/ Return(t)

(***************************************************************************)
(* Creating, adding versions, importing and deleting, one command at a     *)
(* time.                                                                   *)
(***************************************************************************)
Next ==
  \E t \in {"t1"} :
    \/ \E request \in CreateRequests : ToolCreateBegin(t, request)
    \/ \E request \in AddVersionRequests : ToolAddVersionBegin(t, request)
    \/ \E archive \in ImportArchives : ToolImportParse(t, archive)
    \/ ImportFindTool(t)
    \/ ImportFindVersion(t)
    \/ \E tool_id \in DeleteRequests : ToolDeleteRows(t, tool_id)
    \/ DeleteToolFolder(t)
    \/ DeleteToolFolderFails(t)
    \/ IngestStep(t)

Spec == Init /\ [][Next]_vars

(***************************************************************************)
(* Exporting a version and importing the exported archive, one command at  *)
(* a time.                                                                 *)
(***************************************************************************)
RoundTripCreateRequests == {CreateCad, CreateCadAgain}

RoundTripAddVersionRequests ==
  { [tool_id |-> Uuid(1), version |-> Label20,
     changelog_md |-> Some(<<"n">>), instructions_md |-> <<"k">>,
     files |-> <<InboundScr, InboundLower>>] }

RoundTripDeleteRequests == {Uuid(1)}

ExportRequests == {Uuid(2), Uuid(3)}

NextRoundTrip ==
  \E t \in {"t1"} :
    \/ \E request \in RoundTripCreateRequests : ToolCreateBegin(t, request)
    \/ \E request \in RoundTripAddVersionRequests : ToolAddVersionBegin(t, request)
    \/ \E tool_version_id \in ExportRequests : ToolExportContext(t, tool_version_id)
    \/ ToolExportZip(t)
    \/ ToolImportExported(t)
    \/ ImportFindTool(t)
    \/ ImportFindVersion(t)
    \/ \E tool_id \in RoundTripDeleteRequests : ToolDeleteRows(t, tool_id)
    \/ DeleteToolFolder(t)
    \/ DeleteToolFolderFails(t)
    \/ IngestStep(t)

SpecRoundTrip == Init /\ [][NextRoundTrip]_vars

(***************************************************************************)
(* Two commands at a time: creates that request one slug, add-versions     *)
(* with one label for one tool.                                            *)
(***************************************************************************)
ConcurrentCreateRequests == {CreateCadAgain}

ConcurrentAddVersionRequests ==
  { [tool_id |-> Uuid(1), version |-> Label100,
     changelog_md |-> None, instructions_md |-> <<"k">>, files |-> <<InboundLower>>] }

NextConcurrent ==
  \E t \in Tasks :
    \/ \E request \in ConcurrentCreateRequests : ToolCreateBegin(t, request)
    \/ \E request \in ConcurrentAddVersionRequests : ToolAddVersionBegin(t, request)
    \/ IngestStep(t)

SpecConcurrent == Init /\ [][NextConcurrent]_vars

(***************************************************************************)
(* The scratch directories of the archive codec: create_temp_dir makes the *)
(* staging directory of an export, the extraction directory of an import   *)
(* and the staging directory of a payload import; `scratch` of a task is   *)
(* the set of those its command created and that still exist.              *)
(***************************************************************************)
TOOL_EXPORT == "tool-export"

TOOL_IMPORT == "tool-import"

TOOL_IMPORT_PAYLOAD == "tool-import-payload"

\* The file name of the decoded zip inside the staging directory.
PayloadZipFileName(file_name) ==
  Bind(trim(file_name), LAMBDA suggested_name :
    IF suggested_name = <<>> THEN <<"i", "m", "p", "o", "r", "t", ".", "z", "i", "p">>
    ELSE
      Bind([i \in DOMAIN suggested_name |->
              IF is_ascii_alphanumeric(suggested_name[i])
                   \/ suggested_name[i] \in {"-", "_", "."}
                THEN suggested_name[i] ELSE "_"], LAMBDA sanitized :
        IF ends_with(to_ascii_lowercase(sanitized), <<".", "z", "i", "p">>)
          THEN sanitized
          ELSE sanitized \o <<".", "z", "i", "p">>))

\* The archives the payloads of the front end hold; the payload of one byte
\* n stands for the zip of the n-th of them, any other payload is no zip.
PayloadArchives == <<ArchiveCad, ArchiveCad20, ArchiveBadSha, ArchiveNoFiles>>

\* What the archive tool finds in the zip file of the given bytes.
ZipFileContents(bytes) ==
  IF Len(bytes) = 1 /\ bytes[1] \in DOMAIN PayloadArchives
    THEN Some(PayloadArchives[bytes[1]])
    ELSE None

\* import_tool_zip_payload: the payload is decoded, create_temp_dir makes the
\* staging directory (or fails), the name of the zip file is chosen.
ImportPayloadDecode(t, payload) ==
  /\ task[t].pc = "idle"
  /\ Cardinality(FreeUuidNumbers) >= 2
  /\ \E bytes \in {base64_decode(trim(payload.data_base64))},
        created \in BOOLEAN,
        record \in {[IdleTask EXCEPT !.op = "tool_import_zip_payload"]} :
       task' = [task EXCEPT ![t] =
         IF ~bytes.ok
           THEN Finish(record, Err("Validation", "Invalid zip payload encoding"))
         ELSE IF ~created THEN Finish(record, FromIoError)
         ELSE [record EXCEPT !.pc = "payload_write",
                             !.input = bytes.val,
                             !.scratch = {TOOL_IMPORT_PAYLOAD},
                             !.zip_file_name = PayloadZipFileName(payload.file_name)]]
  /\ UNCHANGED <<tools, tags, versions, files, store, exported>>

\* import_tool_zip_payload: fs::write of the decoded zip into the staging
\* directory; on failure `?` returns the error at once.
ImportPayloadWrite(t) ==
  /\ task[t].pc = "payload_write"
  /\ \E wrote \in BOOLEAN :
       task' = [task EXCEPT ![t] =
         IF wrote
           THEN [@ EXCEPT !.pc = "import_temp_dir"]
           ELSE Finish(@, FromIoError)]
  /\ UNCHANGED <<tools, tags, versions, files, store, exported>>

\* tool_import_zip for a zip file of the disk: import_tool_zip begins.
ImportZipBegin(t, bytes) ==
  /\ task[t].pc = "idle"
  /\ Cardinality(FreeUuidNumbers) >= 2
  /\ task' = [task EXCEPT ![t] =
       [IdleTask EXCEPT !.op = "tool_import_zip", !.pc = "import_temp_dir",
                        !.input = bytes]]
  /\ UNCHANGED <<tools, tags, versions, files, store, exported>>

\* The task after import_tool_zip returned `parsed` to its command.
AfterImportToolZip(record, parsed) ==
  IF parsed.ok
    THEN [record EXCEPT !.pc = "import_find_tool",
                        !.result = NoResult,
                        !.metadata = parsed.val.metadata,
                        !.version = parsed.val.version,
                        !.inbound = to_inbound_files(parsed.val.files)]
    ELSE Finish(record, parsed)

\* The task after import_tool_zip returned `parsed`: to import_tool_zip_payload,
\* which removes its staging directory next, or to the command.
ImportToolZipReturns(record, parsed) ==
  IF record.op = "tool_import_zip_payload"
    THEN [record EXCEPT !.pc = "payload_cleanup", !.result = parsed]
    ELSE AfterImportToolZip(record, parsed)

\* import_tool_zip: create_temp_dir makes the extraction directory, or fails.
ImportCreateTempDir(t) ==
  /\ task[t].pc = "import_temp_dir"
  /\ \E created \in BOOLEAN :
       task' = [task EXCEPT ![t] =
         IF created
           THEN [@ EXCEPT !.pc = "import_parse",
                          !.scratch = @ \cup {TOOL_IMPORT},
                          !.archive = IF ZipFileContents(task[t].input).some
                                        THEN ZipFileContents(task[t].input).v
                                        ELSE NoArchive]
           ELSE ImportToolZipReturns(@, FromIoError)]
  /\ UNCHANGED <<tools, tags, versions, files, store, exported>>

\* import_tool_zip: the closure extracts and parses the archive, then the
\* extraction directory is removed and the result returns.
ImportParseArchive(t) ==
  /\ task[t].pc = "import_parse"
  /\ \E parsed \in {IF ZipFileContents(task[t].input).some
                       THEN import_tool_zip(task[t].archive)
                       ELSE Err("Zip", "Archive command failed.")} :
       task' = [task EXCEPT ![t] =
         ImportToolZipReturns([@ EXCEPT !.scratch = @ \ {TOOL_IMPORT}], parsed)]
  /\ UNCHANGED <<tools, tags, versions, files, store, exported>>

\* import_tool_zip_payload: the staging directory is removed and the result
\* of import_tool_zip returns.
ImportPayloadCleanup(t) ==
  /\ task[t].pc = "payload_cleanup"
  /\ task' = [task EXCEPT ![t] =
       AfterImportToolZip([@ EXCEPT !.scratch = @ \ {TOOL_IMPORT_PAYLOAD}],
                          task[t].result)]
  /\ UNCHANGED <<tools, tags, versions, files, store, exported>>

\* export_tool_version_zip: create_temp_dir makes the staging directory, or
\* fails.
ExportCreateTempDir(t) ==
  /\ task[t].pc = "export_zip"
  /\ \E created \in BOOLEAN :
       task' = [task EXCEPT ![t] =
         IF created
           THEN [@ EXCEPT !.pc = "export_stage", !.scratch = {TOOL_EXPORT}]
           ELSE Finish(@, FromIoError)]
  /\ UNCHANGED <<tools, tags, versions, files, store, exported>>

\* export_tool_version_zip: the closure stages and compresses the archive,
\* then the staging directory is removed and the result returns.
ExportStageAndCompress(t) ==
  /\ task[t].pc = "export_stage"
  /\ \E archive \in {export_tool_version_zip(store, task[t].context)},
        compressed \in BOOLEAN :
       /\ exported' = IF archive.ok /\ compressed
                        THEN Some([archive |-> archive.val,
                                   source |-> ExportedSource(task[t].context)])
                        ELSE exported
       /\ task' = [task EXCEPT ![t] =
            Finish([@ EXCEPT !.scratch = @ \ {TOOL_EXPORT}],
                   IF ~archive.ok THEN archive
                   ELSE IF ~compressed THEN Err("Zip", "Archive command failed.")
                   ELSE Ok(<<>>))]
  /\ UNCHANGED <<tools, tags, versions, files, store>>

PayloadFileNames == {<<>>, <<"a", " ", "b">>, <<"c", ".", "Z", "I", "P">>}

\* one per archive, one that is no base64 and one that is no zip
PayloadData ==
  { base64_encode(<<n>>) : n \in DOMAIN PayloadArchives }
    \cup { <<"!">>, base64_encode(BytesHk) }

ZipPayloadRequests ==
  { [file_name |-> name, data_base64 |-> data] :
      name \in PayloadFileNames, data \in PayloadData }

ZipFiles == { <<n>> : n \in DOMAIN PayloadArchives } \cup { BytesHk }

NextScratch ==
  \E t \in {"t1"} :
    \/ \E request \in {CreateCad} : ToolCreateBegin(t, request)
    \/ \E payload \in ZipPayloadRequests : ImportPayloadDecode(t, payload)
    \/ ImportPayloadWrite(t)
    \/ \E bytes \in ZipFiles : ImportZipBegin(t, bytes)
    \/ ImportCreateTempDir(t)
    \/ ImportParseArchive(t)
    \/ ImportPayloadCleanup(t)
    \/ ImportFindTool(t)
    \/ ImportFindVersion(t)
    \/ \E tool_version_id \in ExportRequests : ToolExportContext(t, tool_version_id)
    \/ ExportCreateTempDir(t)
    \/ ExportStageAndCompress(t)
    \/ IngestStep(t)

SpecScratch == Init /\ [][NextScratch]_vars

(***************************************************************************)
(* The export of a version whose file rows or blobs were changed outside   *)
(* the program: the catalog holds one tool with one version of two files,  *)
(* the row of the second file and the blobs are drawn.                     *)
(***************************************************************************)
NameA == <<"a", ".", "t", "x", "t">>

BytesHl == <<72, 108>>

\* tools/<tool_id>/<version_id>/files/<name>
PathOf(tool_id, version_id, name) ==
  Concat(<<STORAGE_ROOT_SEGMENT, <<"/">>, tool_id, <<"/">>, version_id, <<"/">>,
           STORAGE_FILES_SEGMENT, <<"/">>, name>>)

RecordedPaths ==
  { PathOf(Uuid(1), Uuid(2), NameB), PathOf(Uuid(1), Uuid(2), NameA),
    PathOf(Uuid(1), Uuid(3), NameB), PathOf(Uuid(1), Uuid(2), to_ascii_uppercase(NameB)) }

RecordedSizes == {0, 1, 2}

RecordedDigests ==
  { sha256_hex(BytesHk), to_ascii_uppercase(sha256_hex(BytesHk)), sha256_hex(BytesHl) }

\* The blob of b.txt as it is on the disk, or no blob.
BlobsOnDisk == {<<BytesHk>>, <<BytesHl>>, <<BytesOne>>, <<>>}

\* The blob of a.txt as it is on the disk.
BlobsOfGoodRow == {BytesOne, BytesHl}

GoodRow ==
  [tool_version_id |-> Uuid(2), original_name |-> NameA,
   stored_rel_path |-> PathOf(Uuid(1), Uuid(2), NameA),
   sha256 |-> sha256_hex(BytesOne), size_bytes |-> 1, mime |-> None]

InitExport ==
  /\ tools = [id \in {Uuid(1)} |->
                [name |-> TextCad, slug |-> <<"c", "a", "d">>,
                 description |-> <<"d">>, category |-> <<"c">>]]
  /\ tags = {}
  /\ versions = [id \in {Uuid(2)} |->
                   [tool_id |-> Uuid(1), version |-> Label100,
                    changelog_md |-> None, instructions_md |-> <<"i">>]]
  /\ \E path \in RecordedPaths, size \in RecordedSizes, digest \in RecordedDigests :
       files = {GoodRow,
                [tool_version_id |-> Uuid(2), original_name |-> NameB,
                 stored_rel_path |-> path, sha256 |-> digest,
                 size_bytes |-> size, mime |-> None]}
  /\ \E blob \in BlobsOnDisk, blob_a \in BlobsOfGoodRow :
       store = [p \in {PathOf(Uuid(1), Uuid(2), NameA)} \cup
                       (IF blob = <<>> THEN {} ELSE RecordedPaths) |->
                  IF p = PathOf(Uuid(1), Uuid(2), NameA) THEN blob_a ELSE blob[1]]
  /\ exported = None
  /\ task = [t \in Tasks |-> IdleTask]

NextExport ==
  \E t \in {"t1"} :
    \/ \E tool_version_id \in ExportRequests : ToolExportContext(t, tool_version_id)
    \/ ExportCreateTempDir(t)
    \/ ExportStageAndCompress(t)
    \/ Return(t)

SpecExport == InitExport /\ [][NextExport]_vars

(***************************************************************************)
(* Imports of archives whose manifests hold one or two entries drawn from  *)
(* three names and five relative paths; the tree holds a file for every    *)
(* entry path under files/.                                                *)
(***************************************************************************)
MaxEntries == 2

EntryNames == {NameA, to_ascii_uppercase(NameA), NameB}

EntryPaths5 ==
  { FILES_PREFIX \o NameA, FILES_PREFIX \o to_ascii_uppercase(NameA), FILES_PREFIX \o NameB,
    FILES_PREFIX \o <<".", ".", "/">> \o NameA, NameA }

DrawnEntries ==
  { [ManifestEntry(name, BytesHk) EXCEPT !.relative_path = path] :
      name \in EntryNames, path \in EntryPaths5 }

DrawnManifests == UNION { [1..n -> DrawnEntries] : n \in 1..MaxEntries }

\* The archive of the manifest entries: every entry path that is one of the
\* files/ paths is a file of the tree.
ArchiveOf(entries) ==
  [ArchiveCad EXCEPT
     !.manifest.v.files = entries,
     !.tree = [p \in { entries[i].relative_path : i \in DOMAIN entries }
                      \cap { FILES_PREFIX \o name : name \in EntryNames } |-> BytesHk]]

ManifestArchives == { ArchiveOf(entries) : entries \in DrawnManifests } \cup {ArchiveCad20}

NextManifest ==
  \E t \in {"t1"} :
    \/ \E archive \in ManifestArchives : ToolImportParse(t, archive)
    \/ ImportFindTool(t)
    \/ ImportFindVersion(t)
    \/ IngestStep(t)

SpecManifest == Init /\ [][NextManifest]_vars

(***************************************************************************)
(* Imports of the same archives again: one whose manifest slug is the slug *)
(* the catalog stores, one whose manifest slug has an upper-case letter    *)
(* and a space.                                                            *)
(***************************************************************************)
ArchiveSpacedSlug ==
  [ArchiveCad EXCEPT !.manifest.v.tool.name = <<"S", "p">>,
                     !.manifest.v.tool.slug = <<"C", " ", "d">>]

ReimportArchives == {ArchiveCad, ArchiveCad20, ArchiveSpacedSlug, ArchiveBadSha, ArchiveLongTag}

NextReimport ==
  \E t \in {"t1"} :
    \/ \E archive \in ReimportArchives : ToolImportParse(t, archive)
    \/ ImportFindTool(t)
    \/ ImportFindVersion(t)
    \/ IngestStep(t)

SpecReimport == Init /\ [][NextReimport]_vars

(***************************************************************************)
(* tool_delete and tool_add_version for one tool at the same time, every   *)
(* catalog call and every file system call a step of its own; the file     *)
(* system calls succeed.                                                   *)
(***************************************************************************)
DeleteAddVersionRequests ==
  { [tool_id |-> Uuid(1), version |-> Label20,
     changelog_md |-> None, instructions_md |-> <<"k">>,
     files |-> <<InboundScr, InboundLower>>] }

NextDeleteAdd ==
  \E t \in Tasks :
    \/ \E request \in {CreateCad} : ToolCreateBegin(t, request)
    \/ \E request \in DeleteAddVersionRequests : ToolAddVersionBegin(t, request)
    \/ \E tool_id \in {Uuid(1)} : ToolDeleteRows(t, tool_id)
    \/ DeleteToolFolder(t)
    \/ WriteStagedFile(t)
    \/ RemoveWrittenFile(t)
    \/ CreateResolveSlug(t)
    \/ CreateCommit(t)
    \/ CreateFails(t)
    \/ AddVersionToolExists(t)
    \/ AddVersionFindVersion(t)
    \/ AddVersionCommit(t)
    \/ AddVersionFails(t)
    \/ Return(t)

SpecDeleteAdd == Init /\ [][NextDeleteAdd]_vars

(***************************************************************************)
(* The functions of storage.rs called on their own: sanitize_filename once *)
(* and on its own result, assert_safe_archive_path, stage_inbound_files.   *)
(***************************************************************************)
\* sanitize_filename(name)
SanitizeFilenameCall(t, name) ==
  /\ task[t].pc = "idle"
  /\ task' = [task EXCEPT ![t] =
       Finish([IdleTask EXCEPT !.op = "sanitize_filename", !.input = name],
              sanitize_filename(name))]
  /\ UNCHANGED <<tools, tags, versions, files, store, exported>>

\* sanitize_filename(r) for the result r of a call that succeeded
SanitizeFilenameAgain(t) ==
  /\ task[t].pc = "done"
  /\ task[t].op = "sanitize_filename"
  /\ task[t].first = NoResult
  /\ task[t].result.ok
  /\ task' = [task EXCEPT ![t].first = task[t].result,
                          ![t].result = sanitize_filename(task[t].result.val)]
  /\ UNCHANGED <<tools, tags, versions, files, store, exported>>

\* assert_safe_archive_path(path)
AssertSafeArchivePathCall(t, path) ==
  /\ task[t].pc = "idle"
  /\ task' = [task EXCEPT ![t] =
       Finish([IdleTask EXCEPT !.op = "assert_safe_archive_path", !.input = path],
              assert_safe_archive_path(path))]
  /\ UNCHANGED <<tools, tags, versions, files, store, exported>>

\* stage_inbound_files(tool_id, version_id, files, limits)
StageInboundFilesCall(t, request) ==
  /\ task[t].pc = "idle"
  /\ task' = [task EXCEPT ![t] =
       Finish([IdleTask EXCEPT !.op = "stage_inbound_files",
                               !.tool_id = Uuid(1), !.version_id = Uuid(2),
                               !.inbound = request.files, !.input = request.limits],
              stage_inbound_files(Uuid(1), Uuid(2), request.files, request.limits))]
  /\ UNCHANGED <<tools, tags, versions, files, store, exported>>

MaxStemLen == 3

StemAlphabet == {"a", "B", ".", " "}

\* Stems of up to MaxStemLen characters.
ShortStems == UNION { [1..n -> StemAlphabet] : n \in 0..MaxStemLen }

\* n times the letter a.
Pad(n) == [i \in 1..n |-> "a"]

DotTxt == <<".", "t", "x", "t">>

\* File names: short ones, ones whose stem reaches over the 116 characters
\* that a .txt name keeps, reserved device names, a name outside ASCII and an
\* extension that is not allowed.
FileNames ==
  { stem \o extension : stem \in ShortStems, extension \in {DotTxt, <<".", "T", "x", "T">>} }
    \cup { Pad(114) \o stem \o DotTxt : stem \in ShortStems }
    \cup { <<"C", "O", "N">> \o DotTxt, <<"l", "p", "t", "1">> \o DotTxt,
           <<"U+E9", "/">> \o DotTxt, <<"U+E9", "U+A0">> \o DotTxt,
           <<"a", ".", "e", "x", "e">>, <<"a">> }

MaxPathLen == 3

PathAlphabet == {"a", ".", "/", "\\", ":", "U+00", " "}

\* Entry paths of up to MaxPathLen characters, and deeper ones with and
\* without a step back.
ArchivePaths ==
  UNION { [1..n -> PathAlphabet] : n \in 0..MaxPathLen }
    \cup { <<"a", "/", ".", ".", "/", "a">>, <<"a", "/", "a", "/", "a">>,
           <<"a", "/", ".", ".", "/", ".", ".", "/", ".", ".", "/", "a">>,
           <<"C", ":", "\\", "a">>, <<"\\", "\\", "a", "\\", "a">> }

MaxBatch == 3

\* Names that collide up to case, names that look like a suffixed name, and
\* names of the full 120 characters, whose suffixed name is truncated.
StageNames ==
  { <<"a">> \o DotTxt, <<" ", "A", ".", "T", "X", "T", " ">>,
    <<"a", "_", "2">> \o DotTxt, <<"A", "_", "3">> \o DotTxt,
    Pad(116) \o DotTxt, <<"A">> \o Pad(115) \o DotTxt,
    Pad(114) \o <<"_", "2">> \o DotTxt }

\* n bytes.
Bytes(n) == [i \in 1..n |-> 7]

Inbound(name, size) ==
  [original_name |-> name, mime |-> None, data_base64 |-> base64_encode(Bytes(size))]

\* Limits small enough for the sizes of the batches to reach them.
SmallLimits == [max_file_size_bytes |-> 2, max_total_size_bytes |-> 3]

\* Batches of one-byte files under every list of names, and batches of one
\* name under every list of sizes from 0 to one above the file limit.
StageRequests ==
  { [files |-> [i \in DOMAIN names |-> Inbound(names[i], 1)], limits |-> FileLimitsDefault] :
      names \in UNION { [1..n -> StageNames] : n \in 0..MaxBatch } }
    \cup
  { [files |-> [i \in DOMAIN sizes |-> Inbound(<<"a">> \o DotTxt, sizes[i])],
     limits |-> SmallLimits] :
      sizes \in UNION { [1..n -> 0..(SmallLimits.max_file_size_bytes + 1)] :
                          n \in 1..MaxBatch } }

NextStorage ==
  \E t \in {"t1"} :
    \/ \E request \in StageRequests : StageInboundFilesCall(t, request)
    \/ \E name \in FileNames : SanitizeFilenameCall(t, name)
    \/ SanitizeFilenameAgain(t)
    \/ \E path \in ArchivePaths : AssertSafeArchivePathCall(t, path)
    \/ Return(t)

SpecStorage == Init /\ [][NextStorage]_vars

(***************************************************************************)
(* Properties.                                                             *)
(***************************************************************************)
IngestOps == {"tool_create", "tool_add_version", "tool_import_zip"}

\* The paths of the store the command of task t staged its files for.
StagedPaths(t) == { task[t].staged[i].stored_rel_path : i \in DOMAIN task[t].staged }

\* The catalog holds no row that carries the identifiers of the command of task t.
NoRowOfCall(t) ==
  /\ task[t].version_id \notin DOMAIN versions
  /\ \A r \in files : r.tool_version_id # task[t].version_id
  /\ task[t].created_tool =>
       /\ task[t].tool_id \notin DOMAIN tools
       /\ \A r \in tags : r.tool_id # task[t].tool_id
       /\ \A id \in DOMAIN versions : versions[id].tool_id # task[t].tool_id

C2_PartialWritesRolledBack ==
  \A t \in Tasks :
    (/\ task[t].pc = "done"
     /\ task[t].op \in IngestOps
     /\ ~task[t].catalog_error
     /\ task[t].idx \in DOMAIN task[t].staged
     /\ ~task[t].result.ok) =>
      /\ task[t].result.kind = "Io"
      /\ \A path \in StagedPaths(t) : path \notin DOMAIN store

\* C3: every file record has a blob at its stored relative path, whose length
\* is the record's size_bytes and whose digest is the record's sha256; no two
\* records share a path.
C3_FileRecordsHaveTheirBlob ==
  /\ \A r \in files :
       /\ resolve_stored_path(r.stored_rel_path).ok
       /\ resolve_stored_path(r.stored_rel_path).val \in DOMAIN store
       /\ Len(store[resolve_stored_path(r.stored_rel_path).val]) = r.size_bytes
       /\ sha256_hex(store[resolve_stored_path(r.stored_rel_path).val]) = r.sha256
  /\ \A r1, r2 \in files : r1.stored_rel_path = r2.stored_rel_path => r1 = r2

\* Two versions with files of different bytes, every command completed.
C3_Witness ==
  /\ task["t1"].pc = "idle"
  /\ Cardinality(DOMAIN versions) >= 2
  /\ Cardinality({ r.sha256 : r \in files }) >= 2

\* C4: no tool without a version, no version without a file record; the rows
\* of one command are in the catalog together or not at all; a create,
\* add-version or import with an empty file list fails and commits nothing.
C4_NoToolWithoutVersionNoVersionWithoutFile ==
  /\ \A id \in DOMAIN tools : \E v \in DOMAIN versions : versions[v].tool_id = id
  /\ \A v \in DOMAIN versions :
       /\ versions[v].tool_id \in DOMAIN tools
       /\ \E r \in files : r.tool_version_id = v
  /\ \A r \in files : r.tool_version_id \in DOMAIN versions
  /\ \A r \in tags : r.tool_id \in DOMAIN tools
  /\ \A t \in Tasks :
       (task[t].op \in IngestOps /\ task[t].inbound = <<>>
          /\ task[t].pc \notin {"import_find_tool", "import_find_version"}) =>
         /\ task[t].pc = "done"
         /\ ~task[t].result.ok
         /\ NoRowOfCall(t)

\* An import without files was rejected while the catalog holds a tool.
C4_Witness ==
  /\ tools # <<>>
  /\ task["t1"].pc = "done"
  /\ task["t1"].op = "tool_import_zip"
  /\ task["t1"].inbound = <<>>
  /\ task["t1"].result.msg = "At least one file is required."

\* The k-th candidate for a base slug: base, base-2, base-3, ...
SlugCandidate(base, k) ==
  IF k = 1 THEN base ELSE base \o <<"-">> \o DecimalDigits(k)

\* The first candidate for the base that no tool of the catalog has.
FirstFreeSlug(base) ==
  SlugCandidate(base,
    CHOOSE k \in 1..(Cardinality(DOMAIN tools) + 1) :
      /\ \A id \in DOMAIN tools : tools[id].slug # SlugCandidate(base, k)
      /\ \A j \in 1..(k - 1) :
           \E id \in DOMAIN tools : tools[id].slug = SlugCandidate(base, j))

\* The base slug of a create: the requested slug, else the name, slugified.
BaseSlug(metadata) ==
  slugify(IF metadata.slug.some /\ trim(metadata.slug.v) # <<>>
            THEN metadata.slug.v
            ELSE metadata.name)

\* C5: no two tools share a slug, and a create (tool_create, or an import
\* that creates the tool) stores the tool under the first candidate base,
\* base-2, base-3, ... that no tool has.
C5_SlugUniqueness ==
  [][/\ \A a, b \in DOMAIN tools' : tools'[a].slug = tools'[b].slug => a = b
     /\ \A t \in Tasks :
          \A id \in DOMAIN tools' \ DOMAIN tools :
            id = task[t].tool_id =>
              tools'[id].slug = FirstFreeSlug(BaseSlug(task[t].metadata))]_vars

\* Two tools, the second stored under the base of the first with -2.
C5_Witness ==
  \E a, b \in DOMAIN tools :
    /\ tools[a].slug = <<"c", "a", "d">>
    /\ tools[b].slug = <<"c", "a", "d", "-", "2">>

\* The statement of the transaction of task t that failed broke a UNIQUE
\* constraint: another command committed the slug, or the label, first.
LostToUniqueness(t) ==
  /\ task[t].pc \in {"rollback", "done"}
  /\ task[t].catalog_error
  /\ task[t].result.msg = "Database operation failed: UNIQUE constraint failed"

\* C6: of two concurrent creates with one requested slug, or two concurrent
\* add-versions with one label for one tool, that both passed the existence
\* SELECT, the one that commits second returns an error of kind Conflict or
\* Validation, not of kind Database.
C6_UniquenessViolationIsConflict ==
  \A t \in Tasks : LostToUniqueness(t) => task[t].result.kind \in {"Conflict", "Validation"}

\* The import of task t names, by its manifest slug, a tool that has a version
\* with the manifest's version label, and has not returned.
ImportNamesExistingVersion(t) ==
  /\ task[t].op = "tool_import_zip"
  /\ task[t].pc \in {"import_find_tool", "import_find_version"}
  /\ \E id \in DOMAIN tools :
       /\ tools[id].slug = task[t].metadata.slug.v
       /\ \E v \in DOMAIN versions :
            /\ versions[v].tool_id = id
            /\ versions[v].version = task[t].version.version

\* C7: an import whose manifest slug names a tool that has a version with the
\* manifest's label takes no step that stages or writes a blob or changes the
\* catalog or the store, and returns Conflict.
C7_ImportOfExistingVersionConflicts ==
  [][\A t \in Tasks :
       (ImportNamesExistingVersion(t) /\ task'[t] # task[t]) =>
         /\ UNCHANGED <<tools, tags, versions, files, store>>
         /\ task'[t].staged = <<>> /\ task'[t].written = <<>>
         /\ \/ task[t].pc = "import_find_tool" /\ task'[t].pc = "import_find_version"
            \/ /\ task[t].pc = "import_find_version"
               /\ task'[t].pc = "done"
               /\ task'[t].result.kind = "Conflict"]_vars

\* An import returned Conflict.
C7_Witness ==
  /\ task["t1"].pc = "done"
  /\ task["t1"].op = "tool_import_zip"
  /\ task["t1"].result.kind = "Conflict"
  /\ versions # <<>>

\* The catalog and the store after the commit of an import hold exactly what
\* `source` describes: one tool, one version, the files and their blobs.
SameAsSource(source, new_tools, new_tags, new_versions, new_files, new_store) ==
  /\ Cardinality(DOMAIN new_tools) = 1
  /\ Cardinality(DOMAIN new_versions) = 1
  /\ \A id \in DOMAIN new_tools :
       /\ new_tools[id].name = source.tool.name
       /\ new_tools[id].slug = source.tool.slug
       /\ new_tools[id].description = source.tool.description
       /\ new_tools[id].category = source.tool.category
       /\ { r.tag : r \in new_tags } = Range(source.tool.tags)
       /\ \A r \in new_tags : r.tool_id = id
       /\ \A v \in DOMAIN new_versions : new_versions[v].tool_id = id
  /\ \A v \in DOMAIN new_versions :
       /\ new_versions[v].version = source.version.version
       /\ new_versions[v].changelog_md = source.version.changelog_md
       /\ new_versions[v].instructions_md = source.version.instructions_md
       /\ \A r \in new_files : r.tool_version_id = v
  /\ { [original_name |-> r.original_name, size_bytes |-> r.size_bytes,
        sha256 |-> r.sha256, bytes |-> new_store[r.stored_rel_path]] : r \in new_files }
       = source.files
  /\ Cardinality(new_files) = Cardinality(source.files)
  /\ Cardinality(DOMAIN new_store) = Cardinality(source.files)

\* Task t imports the exported archive into an empty catalog and a store that
\* holds nothing but the blobs this import wrote.
ImportsExportIntoEmpty(t) ==
  /\ task[t].op = "tool_import_zip"
  /\ exported.some
  /\ task[t].archive = exported.v.archive
  /\ tools = <<>> /\ tags = {} /\ versions = <<>> /\ files = {}
  /\ DOMAIN store = Range(task[t].written)

EntryDisagrees(archive, entry) ==
  /\ entry.relative_path \in DOMAIN archive.tree
  /\ \/ Len(archive.tree[entry.relative_path]) # entry.size_bytes
     \/ to_ascii_lowercase(sha256_hex(archive.tree[entry.relative_path]))
          # to_ascii_lowercase(trim(entry.sha256))

\* Some entry of the archive's manifest disagrees with its file.
HasDisagreeingEntry(archive) ==
  /\ archive.manifest.some
  /\ \E i \in DOMAIN archive.manifest.v.files :
       EntryDisagrees(archive, archive.manifest.v.files[i])

MismatchMessages == {"SHA256 mismatch", "File size mismatch"}

\* C9: the import of an archive with an entry whose sha256 (compared without
\* regard to case) or size disagrees with the extracted bytes fails with
\* SHA256 mismatch or File size mismatch and writes nothing to the catalog or
\* the store; an archive without such an entry is not rejected for a mismatch.
C9_IntegrityRejection ==
  [][\A t \in Tasks :
       (task[t].pc = "idle" /\ task'[t].op = "tool_import_zip") =>
         /\ HasDisagreeingEntry(task'[t].archive) =>
              /\ task'[t].pc = "done"
              /\ ~task'[t].result.ok
              /\ task'[t].result.msg \in MismatchMessages
              /\ UNCHANGED <<tools, tags, versions, files, store>>
         /\ ~HasDisagreeingEntry(task'[t].archive) =>
              task'[t].result.msg \notin MismatchMessages]_vars

\* An import was rejected for its digest while the catalog holds a tool.
C9_Witness ==
  /\ task["t1"].pc = "done"
  /\ task["t1"].op = "tool_import_zip"
  /\ task["t1"].result.msg = "SHA256 mismatch"
  /\ tools # <<>>

\* The files of the extracted tree.
ExtractedFiles(archive) ==
  (IF archive.manifest.some THEN {MANIFEST_JSON} ELSE {})
    \cup (IF archive.instructions.some THEN {INSTRUCTIONS_MD} ELSE {})
    \cup DOMAIN archive.tree

\* files/<sanitized name> of the manifest entries whose name can be sanitized.
EntryPaths(archive) ==
  { FILES_PREFIX \o sanitize_filename(archive.manifest.v.files[i].original_name).val :
      i \in { k \in DOMAIN archive.manifest.v.files :
                sanitize_filename(archive.manifest.v.files[k].original_name).ok } }

\* C10: an import gets past its parse only if every file of the extracted
\* tree is manifest.json, instructions.md or files/<sanitized name> of a
\* manifest entry, and then ingests one file per manifest entry, under the
\* entries' names; with any other extracted file the import fails and writes
\* nothing.
C10_ArchiveCompleteness ==
  [][\A t \in Tasks :
       (task[t].pc = "idle" /\ task'[t].op = "tool_import_zip") =>
         LET archive == task'[t].archive IN
         /\ (archive.manifest.some
               /\ ExtractedFiles(archive) \
                    ({MANIFEST_JSON, INSTRUCTIONS_MD} \cup EntryPaths(archive)) # {}) =>
              /\ task'[t].pc = "done"
              /\ ~task'[t].result.ok
              /\ UNCHANGED <<tools, tags, versions, files, store>>
         /\ task'[t].pc = "import_find_tool" =>
              /\ ExtractedFiles(archive)
                   = {MANIFEST_JSON, INSTRUCTIONS_MD} \cup EntryPaths(archive)
              /\ Len(task'[t].inbound) = Len(archive.manifest.v.files)
              /\ { FILES_PREFIX \o task'[t].inbound[i].original_name :
                     i \in DOMAIN task'[t].inbound } = EntryPaths(archive)
              /\ \A i \in DOMAIN task'[t].inbound :
                   base64_decode(task'[t].inbound[i].data_base64).val
                     = archive.tree[FILES_PREFIX \o task'[t].inbound[i].original_name]]_vars

\* An import was rejected for a file no manifest entry names.
C10_Witness ==
  /\ task["t1"].pc = "done"
  /\ task["t1"].op = "tool_import_zip"
  /\ task["t1"].result.msg = "Unexpected file in archive"

\* C11: when sanitize_filename succeeds on a name with result r, it succeeds on
\* r and returns r.
C11_FilenameIdempotence ==
  \A t \in Tasks :
    (task[t].op = "sanitize_filename" /\ task[t].first # NoResult) =>
      /\ task[t].result.ok
      /\ task[t].result.val = task[t].first.val

RECURSIVE ResolveSegments(_, _)
\* The directory reached from `stack` by the segments: "." and empty segments
\* stay, ".." goes up (and stays at the root), a name goes down.
ResolveSegments(stack, segments) ==
  IF segments = <<>> THEN stack
  ELSE ResolveSegments(
         IF Head(segments) \in {<<>>, <<".">>} THEN stack
         ELSE IF Head(segments) = <<".", ".">>
           THEN (IF stack = <<>> THEN <<>> ELSE SubSeq(stack, 1, Len(stack) - 1))
         ELSE Append(stack, Head(segments)),
         Tail(segments))

\* The path with '/' for each '\'.
ForwardSlashes(p) == [i \in DOMAIN p |-> IF p[i] = "\\" THEN "/" ELSE p[i]]

\* p joined to the directory and resolved: an absolute or drive-prefixed p
\* replaces the directory.
JoinResolved(directory, p) ==
  ResolveSegments(
    IF starts_with(ForwardSlashes(p), <<"/">>) \/ contains_char(p, ":")
      THEN <<>> ELSE directory,
    split(ForwardSlashes(p), "/"))

IsDescendant(resolved, directory) ==
  Len(resolved) > Len(directory) /\ SubSeq(resolved, 1, Len(directory)) = directory

ExtractionDir == << <<"t", "m", "p">>, <<"x">> >>

\* C12: a path that assert_safe_archive_path accepts holds no NUL, ':' or '\',
\* does not start with '/', has only segments that are not empty, "." or "..",
\* and joined to a directory resolves to a descendant of it; a path that is
\* absolute, drive-prefixed, UNC or steps back is rejected.
C12_PathSafety ==
  \A t \in Tasks :
    (task[t].op = "assert_safe_archive_path" /\ task[t].pc = "done") =>
      /\ task[t].result.ok =>
           /\ ~contains_char(task[t].input, "U+00")
           /\ ~contains_char(task[t].input, ":")
           /\ ~contains_char(task[t].input, "\\")
           /\ ~starts_with(task[t].input, <<"/">>)
           /\ \A segment \in Range(split(task[t].input, "/")) :
                segment \notin {<<>>, <<".">>, <<".", ".">>}
           /\ IsDescendant(JoinResolved(ExtractionDir, task[t].input), ExtractionDir)
      /\ (\/ starts_with(task[t].input, <<"/">>)
          \/ contains_char(task[t].input, "\\")
          \/ contains_char(task[t].input, ":")
          \/ <<".", ".">> \in Range(split(task[t].input, "/"))) =>
           ~task[t].result.ok

\* A path of two segments was accepted.
C12_Witness ==
  /\ task["t1"].op = "assert_safe_archive_path"
  /\ task["t1"].pc = "done"
  /\ task["t1"].result.ok
  /\ Len(split(task["t1"].input, "/")) = 2

\* The call of stage_inbound_files of task t has returned its staged files.
Staged(t) ==
  /\ task[t].op = "stage_inbound_files"
  /\ task[t].pc = "done"
  /\ task[t].result.ok

\* The sanitized name of the i-th file of the batch of task t.
SanitizedName(t, i) == sanitize_filename(task[t].inbound[i].original_name).val

\* The names of the batch all sanitize to one name up to ASCII case.
SameBase(t) ==
  \A i, j \in DOMAIN task[t].inbound :
    to_ascii_lowercase(SanitizedName(t, i)) = to_ascii_lowercase(SanitizedName(t, j))

\* stem_i.ext for the sanitized name stem.ext
Suffixed(name, i) ==
  Concat(<<path_file_stem(name).v, <<"_">>, DecimalDigits(i), <<".">>,
           path_extension(name).v>>)

\* Every suffixed name of the batch of task t fits in 120 characters.
SuffixedNamesFit(t) ==
  \A i \in DOMAIN task[t].inbound :
    Len(Suffixed(SanitizedName(t, i), i)) <= MAX_SANITIZED_FILENAME_LEN

\* C13: for names that all sanitize to one base up to ASCII case, the i-th
\* staged name is the first file's sanitized name for i = 1 and the i-th file's
\* sanitized stem followed by _i before the extension for i >= 2.
C13_CollisionDeterminism ==
  \A t \in Tasks :
    (Staged(t) /\ SameBase(t)) =>
      \A i \in DOMAIN task[t].inbound :
        task[t].result.val[i].original_name =
          IF i = 1 THEN SanitizedName(t, 1) ELSE Suffixed(SanitizedName(t, i), i)

\* C13 for names whose suffixed name fits in 120 characters, so that no stem
\* is truncated.
C13_CollisionDeterminismFitting ==
  \A t \in Tasks :
    (Staged(t) /\ SameBase(t) /\ SuffixedNamesFit(t)) =>
      \A i \in DOMAIN task[t].inbound :
        task[t].result.val[i].original_name =
          IF i = 1 THEN SanitizedName(t, 1) ELSE Suffixed(SanitizedName(t, i), i)

\* Three names of one base that differ in case were staged.
C13_Witness ==
  /\ Staged("t1") /\ SameBase("t1") /\ SuffixedNamesFit("t1")
  /\ Len(task["t1"].inbound) = 3
  /\ SanitizedName("t1", 2) # SanitizedName("t1", 3)

\* C14: the names staged for one batch are pairwise distinct up to ASCII case,
\* and so are the stored relative paths.
C14_StagedNamesDistinct ==
  \A t \in Tasks :
    Staged(t) =>
      \A i, j \in DOMAIN task[t].result.val :
        i # j =>
          /\ to_ascii_lowercase(task[t].result.val[i].original_name)
               # to_ascii_lowercase(task[t].result.val[j].original_name)
          /\ to_ascii_lowercase(task[t].result.val[i].stored_rel_path)
               # to_ascii_lowercase(task[t].result.val[j].stored_rel_path)

\* A batch with a name that looks like a suffixed name and two names that
\* collide up to case was staged.
C14_Witness ==
  /\ Staged("t1")
  /\ Len(task["t1"].inbound) = 3
  /\ task["t1"].inbound[1].original_name = <<"a", "_", "2">> \o DotTxt
  /\ task["t1"].inbound[2].original_name = <<"a">> \o DotTxt
  /\ task["t1"].inbound[3].original_name = <<" ", "A", ".", "T", "X", "T", " ">>

\* The decoded size of the i-th file of the batch of task t.
SizeOf(t, i) == Len(base64_decode(trim(task[t].inbound[i].data_base64)).val)

RECURSIVE SumTo(_, _)
\* The running total after the i-th file.
SumTo(t, i) == IF i = 0 THEN 0 ELSE SizeOf(t, i) + SumTo(t, i - 1)

\* Some file of the batch is empty, exceeds the file limit, or brings the
\* running total over the total limit.
BreaksSizePolicy(t) ==
  \E i \in DOMAIN task[t].inbound :
    \/ SizeOf(t, i) = 0
    \/ SizeOf(t, i) > task[t].input.max_file_size_bytes
    \/ SumTo(t, i) > task[t].input.max_total_size_bytes

\* C15: stage_inbound_files fails with Validation and stages nothing when a
\* file is empty, exceeds max_file_size_bytes, or brings the running total over
\* max_total_size_bytes; a batch of valid names within the limits, sizes equal
\* to a limit included, is staged.
C15_SizePolicy ==
  \A t \in Tasks :
    (task[t].op = "stage_inbound_files" /\ task[t].pc = "done"
       /\ task[t].inbound # <<>>
       /\ \A i \in DOMAIN task[t].inbound :
            sanitize_filename(task[t].inbound[i].original_name).ok) =>
      /\ BreaksSizePolicy(t) =>
           /\ ~task[t].result.ok
           /\ task[t].result.kind = "Validation"
           /\ task[t].result.val = <<>>
      /\ ~BreaksSizePolicy(t) =>
           /\ task[t].result.ok
           /\ Len(task[t].result.val) = Len(task[t].inbound)

\* A batch with a file of the file limit and a total of the total limit was
\* staged.
C15_Witness ==
  /\ Staged("t1")
  /\ task["t1"].input = SmallLimits
  /\ SizeOf("t1", 1) = SmallLimits.max_file_size_bytes
  /\ SumTo("t1", Len(task["t1"].inbound)) = SmallLimits.max_total_size_bytes

\* The path lies under tools/<tool_id>/.
UnderTool(path, tool_id) ==
  starts_with(path, Concat(<<STORAGE_ROOT_SEGMENT, <<"/">>, tool_id, <<"/">>>>))

\* The versions of a tool in the catalog `vs`.
VersionsOf(vs, tool_id) == { id \in DOMAIN vs : vs[id].tool_id = tool_id }

\* C16: tool_delete(t) that returns Ok leaves no tool, tag, version or file
\* row of t and no blob under tools/<t>; its two steps (the DELETE of the rows,
\* the removal of the folder) leave the rows and blobs of every other tool as
\* they were.
C16_DeleteRemovesTool ==
  [][\A t \in Tasks :
       (task'[t].op = "tool_delete" /\ task[t].pc # "done") =>
         /\ (task'[t].pc = "done" /\ task'[t].result.ok) =>
              /\ task'[t].tool_id \notin DOMAIN tools'
              /\ \A r \in tags' : r.tool_id # task'[t].tool_id
              /\ VersionsOf(versions', task'[t].tool_id) = {}
              /\ \A r \in files' :
                   /\ r.tool_version_id \in DOMAIN versions'
                   /\ ~UnderTool(r.stored_rel_path, task'[t].tool_id)
              /\ \A path \in DOMAIN store' : ~UnderTool(path, task'[t].tool_id)
         /\ \A id \in DOMAIN tools \ {task'[t].tool_id} :
              id \in DOMAIN tools' /\ tools'[id] = tools[id]
         /\ DOMAIN tools' \subseteq DOMAIN tools
         /\ { r \in tags : r.tool_id # task'[t].tool_id }
              = { r \in tags' : r.tool_id # task'[t].tool_id }
         /\ \A id \in DOMAIN versions :
              versions[id].tool_id # task'[t].tool_id =>
                /\ id \in DOMAIN versions' /\ versions'[id] = versions[id]
                /\ { r \in files : r.tool_version_id = id }
                     = { r \in files' : r.tool_version_id = id }
         /\ \A path \in DOMAIN store :
              ~UnderTool(path, task'[t].tool_id) =>
                path \in DOMAIN store' /\ store'[path] = store[path]
         /\ DOMAIN store' \subseteq DOMAIN store]_vars

\* tool_delete returned Ok while the catalog and the store hold another tool.
C16_Witness ==
  /\ task["t1"].op = "tool_delete"
  /\ task["t1"].pc = "done"
  /\ task["t1"].result.ok
  /\ tools # <<>>
  /\ store # <<>>
  /\ \E path \in DOMAIN store : \E id \in DOMAIN tools : UnderTool(path, id)

\* C17: for every file record, normalize_stored_rel_path of its stored path
\* succeeds and returns tools/<tool_id>/<version_id>/files/<sanitized name>,
\* with the identifiers of the record's version and of that version's tool and
\* the sanitized form of the record's original_name.
C17_StoredPathShape ==
  \A r \in files :
    /\ r.tool_version_id \in DOMAIN versions
    /\ sanitize_filename(r.original_name).ok
    /\ normalize_stored_rel_path(r.stored_rel_path).ok
    /\ normalize_stored_rel_path(r.stored_rel_path).val =
         StoredPath(versions[r.tool_version_id].tool_id, r.tool_version_id,
                    sanitize_filename(r.original_name).val)

\* The catalog holds the record of a file that was staged under a suffixed
\* name, and records of two versions.
C17_Witness ==
  /\ \E r \in files : r.original_name = <<"a", "_", "2">> \o DotTxt
  /\ Cardinality({ r.tool_version_id : r \in files }) = 2

\* The tool has a version with the label.
HasLabel(tool_id, label) ==
  \E id \in DOMAIN versions :
    versions[id].tool_id = tool_id /\ versions[id].version = label

\* C18: add_version_with_files returns NotFound when the tool is absent and
\* Conflict when the tool has a version with the trimmed label, and leaves the
\* catalog as it was; no tool has two versions with one label.
C18_AddVersionNotFoundConflict ==
  [][\A t \in Tasks :
       /\ (task[t].pc = "add_exists" /\ task[t].tool_id \notin DOMAIN tools) =>
            /\ task'[t].catalog_error
            /\ task'[t].result.kind = "NotFound"
            /\ UNCHANGED <<tools, tags, versions, files>>
       /\ (task[t].pc = "add_find"
             /\ HasLabel(task[t].tool_id, trim(task[t].version.version))) =>
            /\ task'[t].catalog_error
            /\ task'[t].result.kind = "Conflict"
            /\ UNCHANGED <<tools, tags, versions, files>>
       /\ \A a, b \in DOMAIN versions' :
            (versions'[a].tool_id = versions'[b].tool_id
               /\ versions'[a].version = versions'[b].version) => a = b]_vars

\* tool_add_version with a label that is an existing one up to white space
\* returned Conflict.
C18_Witness ==
  /\ task["t1"].op = "tool_add_version"
  /\ task["t1"].pc = "done"
  /\ task["t1"].result.kind = "Conflict"
  /\ task["t1"].version.version # trim(task["t1"].version.version)

\* C19: tool_add_version for a tool_id that is not in the catalog writes no
\* blob to the store.
C19_AddVersionFailsFast ==
  \A t \in Tasks :
    (task[t].op = "tool_add_version" /\ task[t].pc # "idle"
       /\ task[t].tool_id \notin DOMAIN tools) =>
      task[t].written = <<>>

\* C20: every slug of the catalog has 1 to 120 characters, all of them
\* lowercase ASCII letters, digits or '-', the first and the last not '-'.
C20_SlugShape ==
  \A id \in DOMAIN tools :
    /\ Len(tools[id].slug) \in 1..120
    /\ \A i \in DOMAIN tools[id].slug : tools[id].slug[i] \in LowerSet \cup DigitSet \cup {"-"}
    /\ Head(tools[id].slug) # "-"
    /\ tools[id].slug[Len(tools[id].slug)] # "-"


\* C21: a step of tool_add_version, or of an import onto an existing tool,
\* changes no tool row and no tag, no existing version row, no existing file
\* record and no blob of an existing file record.
C21_CommittedVersionsImmutable ==
  [][\A t \in Tasks :
       (task'[t] # task[t]
          /\ task'[t].op \in {"tool_add_version", "tool_import_zip"}
          /\ ~task'[t].created_tool) =>
         /\ tools' = tools
         /\ tags' = tags
         /\ \A id \in DOMAIN versions :
              id \in DOMAIN versions' /\ versions'[id] = versions[id]
         /\ files \subseteq files'
         /\ \A r \in files :
              \E path \in {resolve_stored_path(r.stored_rel_path)} :
                (path.ok /\ path.val \in DOMAIN store) =>
                  (path.val \in DOMAIN store' /\ store'[path.val] = store[path.val])]_vars

\* An import committed a version onto an existing tool whose name differs
\* from the one of the manifest.
C21_Witness ==
  /\ task["t1"].op = "tool_import_zip"
  /\ task["t1"].pc = "done"
  /\ task["t1"].result.ok
  /\ ~task["t1"].created_tool
  /\ task["t1"].tool_id \in DOMAIN tools
  /\ tools[task["t1"].tool_id].name # trim(task["t1"].metadata.name)


\* C22: an ingest that fails the validation of its request (a file name, a
\* size, the base64, or the name, description, category, a tag, the version
\* label, the instructions or the changelog) has written no blob when the
\* Validation error is returned.
C22_ValidationTakesNoWritePath ==
  \A t \in Tasks :
    (task[t].op \in IngestOps
       /\ task[t].pc \in {"rollback", "done"}
       /\ task[t].result.kind = "Validation") =>
      task[t].written = <<>>


\* The rows of the catalog that carry the identifiers of the command of task t.
RowsOfOperation(t) ==
  /\ task[t].version_id \in DOMAIN versions
  /\ \E r \in files : r.tool_version_id = task[t].version_id

\* The first n staged files of task t are in the store with their bytes.
BlobsWritten(t, n) ==
  \A i \in 1..n :
    \E path \in {resolve_stored_path(task[t].staged[i].stored_rel_path)} :
      path.ok /\ path.val \in DOMAIN store
        /\ store[path.val] = task[t].staged[i].bytes

\* C23: an ingest writes its blobs in the order of the inbound files, the
\* k-th write being the k-th inbound file; the catalog changes only after
\* every write succeeded; no row of the operation is in the catalog while
\* one of its blobs is unwritten.
C23_WritesBeforeCatalog ==
  [][\A t \in Tasks :
       (task'[t] # task[t] /\ task'[t].op \in IngestOps) =>
         /\ (task[t].pc = "write" /\ store' # store) =>
              \E k \in {Len(task[t].written) + 1} :
                /\ k <= Len(task[t].staged)
                /\ Len(task[t].staged) = Len(task[t].inbound)
                /\ task[t].staged[k].bytes =
                     base64_decode(trim(task[t].inbound[k].data_base64)).val
                /\ task'[t].written =
                     Append(task[t].written,
                            resolve_stored_path(task[t].staged[k].stored_rel_path).val)
                /\ store' = Put(store, task'[t].written[k], task[t].staged[k].bytes)
         /\ (tools' # tools \/ tags' # tags \/ versions' # versions \/ files' # files) =>
              /\ task[t].staged # <<>>
              /\ Len(task[t].written) = Len(task[t].staged)
              /\ BlobsWritten(t, Len(task[t].staged))
         /\ (task'[t].pc # "idle" /\ task'[t].version_id \in DOMAIN versions') =>
              /\ Len(task'[t].written) = Len(task'[t].staged)
              /\ (task'[t].pc = "done" =>
                    \A i \in DOMAIN task'[t].staged :
                      \E path \in {resolve_stored_path(task'[t].staged[i].stored_rel_path)} :
                        path.ok /\ path.val \in DOMAIN store'
                          /\ store'[path.val] = task'[t].staged[i].bytes)]_vars

\* An ingest of two files committed after both writes.
C23_Witness ==
  /\ task["t1"].op \in IngestOps
  /\ task["t1"].pc = "done"
  /\ task["t1"].result.ok
  /\ Len(task["t1"].staged) >= 2
  /\ RowsOfOperation("t1")
  /\ BlobsWritten("t1", Len(task["t1"].staged))


\* C24: when a command of the archive codec has returned, every scratch
\* directory it created (the staging directory of the export, the extraction
\* directory of the import, the staging directory of the payload import) is
\* removed.
C24_ScratchRemoved ==
  \A t \in Tasks : task[t].pc = "done" => task[t].scratch = {}


\* The file row disagrees with the store: its path is not the one of its
\* sanitized name under the version, or the blob is missing, has another
\* length or another digest.
RowDisagrees(context, file) ==
  \/ ~sanitize_filename(file.original_name).ok
  \/ file.stored_rel_path #
       PathOf(context.version.tool_id, context.version.id,
              sanitize_filename(file.original_name).val)
  \/ file.stored_rel_path \notin DOMAIN store
  \/ Len(store[file.stored_rel_path]) # file.size_bytes
  \/ to_ascii_lowercase(sha256_hex(store[file.stored_rel_path])) #
       to_ascii_lowercase(trim(file.sha256))

\* C25: when a file row of the exported version disagrees with the store in
\* its path, the length of its blob or its digest, the export fails and
\* writes no archive.
C25_ExportVerifiesEveryFile ==
  [][\A t \in Tasks :
       (task[t].pc = "export_stage" /\ task'[t].pc = "done"
          /\ \E i \in DOMAIN task[t].context.files :
               RowDisagrees(task[t].context, task[t].context.files[i])) =>
         /\ ~task'[t].result.ok
         /\ exported' = exported]_vars

\* An export failed on the digest of the second file, whose path and length
\* agree.
C25_Witness ==
  /\ task["t1"].op = "tool_export_zip"
  /\ task["t1"].pc = "done"
  /\ task["t1"].result.msg = "Stored file hash mismatch"
  /\ Len(task["t1"].context.files) = 2
  /\ ~RowDisagrees(task["t1"].context, task["t1"].context.files[1])
  /\ RowDisagrees(task["t1"].context, task["t1"].context.files[2])
  /\ exported = None


\* import_tool_zip accepted the archive of task t.
ManifestAccepted(t) ==
  /\ task[t].op = "tool_import_zip"
  /\ task[t].archive.manifest.some
  /\ task[t].inbound # <<>>

\* The entry names a safe path that is files/ + its sanitized name.
EntryWellFormed(entry) ==
  /\ assert_safe_archive_path(entry.relative_path).ok
  /\ sanitize_filename(entry.original_name).ok
  /\ entry.relative_path = FILES_PREFIX \o sanitize_filename(entry.original_name).val

\* Two entries whose sanitized names are equal under ASCII case folding.
SameFoldedName(a, b) ==
  to_ascii_lowercase(sanitize_filename(a.original_name).val) =
    to_ascii_lowercase(sanitize_filename(b.original_name).val)

\* C26: an accepted manifest has only well-formed entries, no two of them
\* with the same sanitized name under case folding; a manifest of
\* well-formed entries with two such entries is rejected with 'Duplicate
\* file in manifest', also when the two entries are the same.
C26_ManifestAcceptance ==
  \A t \in Tasks :
    (task[t].op = "tool_import_zip" /\ task[t].archive.manifest.some) =>
      \E entries \in {task[t].archive.manifest.v.files} :
        /\ ManifestAccepted(t) =>
             /\ \A i \in DOMAIN entries : EntryWellFormed(entries[i])
             /\ \A i, j \in DOMAIN entries :
                  i # j => ~SameFoldedName(entries[i], entries[j])
        /\ ((\A i \in DOMAIN entries : EntryWellFormed(entries[i]))
              /\ \E i, j \in DOMAIN entries :
                   i # j /\ SameFoldedName(entries[i], entries[j])) =>
             /\ task[t].pc = "done"
             /\ task[t].result = Err("Validation", "Duplicate file in manifest")

\* The import of a manifest whose two entries are the same valid file
\* returned the Duplicate error.
C26_Witness ==
  /\ task["t1"].op = "tool_import_zip"
  /\ task["t1"].pc = "done"
  /\ task["t1"].archive.manifest.some
  /\ Len(task["t1"].archive.manifest.v.files) = 2
  /\ task["t1"].archive.manifest.v.files[1] = task["t1"].archive.manifest.v.files[2]
  /\ EntryWellFormed(task["t1"].archive.manifest.v.files[1])
  /\ task["t1"].result.msg = "Duplicate file in manifest"


\* C27: tool_delete changes the store only after the rows of the tool are
\* deleted; when the removal of the folder fails the error is returned and
\* the rows stay deleted; for a tool that is not in the catalog the command
\* returns NotFound and leaves the catalog and the store as they were.
C27_DeleteRowsFirst ==
  [][\A t \in Tasks :
       (task'[t] # task[t] /\ task'[t].op = "tool_delete") =>
         /\ store' # store =>
              /\ task[t].pc = "delete_folder"
              /\ task[t].tool_id \notin DOMAIN tools
              /\ VersionsOf(versions, task[t].tool_id) = {}
         /\ (task[t].pc = "delete_folder" /\ ~task'[t].result.ok) =>
              /\ task'[t].pc = "done"
              /\ task'[t].result.kind = "Io"
              /\ task'[t].tool_id \notin DOMAIN tools'
              /\ VersionsOf(versions', task'[t].tool_id) = {}
              /\ \A r \in files' : ~UnderTool(r.stored_rel_path, task'[t].tool_id)
         /\ (task[t].pc = "idle" /\ task'[t].tool_id \notin DOMAIN tools) =>
              /\ task'[t].pc = "done"
              /\ task'[t].result = Err("NotFound", "Tool not found.")
              /\ UNCHANGED <<tools, tags, versions, files, store>>
         /\ (task'[t].pc = "done" /\ task'[t].result.kind = "NotFound") =>
              /\ task[t].pc = "idle"
              /\ task'[t].tool_id \notin DOMAIN tools
              /\ store' = store]_vars

\* tool_delete returned the error of the folder's removal: the rows of the
\* tool are gone, its blobs are in the store.
C27_Witness ==
  /\ task["t1"].op = "tool_delete"
  /\ task["t1"].pc = "done"
  /\ task["t1"].result.kind = "Io"
  /\ task["t1"].tool_id \notin DOMAIN tools
  /\ ToolFolder(task["t1"].tool_id) # {}

\* tool_delete of a tool that is not in the catalog returned NotFound while
\* the store holds blobs.
C27_WitnessNotFound ==
  /\ task["t1"].op = "tool_delete"
  /\ task["t1"].pc = "done"
  /\ task["t1"].result.kind = "NotFound"
  /\ store # <<>>


\* The catalog holds what an import of the archive commits: a tool with the
\* manifest's name, description and category, its slug made of the manifest's,
\* and, under it, a version with the manifest's label and one file row per
\* manifest entry, with the entry's digest.
AlreadyImported(archive) ==
  /\ archive.manifest.some
  /\ \E manifest \in {archive.manifest.v} :
       \E id \in DOMAIN versions :
         /\ versions[id].version = trim(manifest.version.version)
         /\ versions[id].tool_id \in DOMAIN tools
         /\ tools[versions[id].tool_id].name = trim(manifest.tool.name)
         /\ tools[versions[id].tool_id].description = trim(manifest.tool.description)
         /\ tools[versions[id].tool_id].category = trim(manifest.tool.category)
         /\ starts_with(tools[versions[id].tool_id].slug, slugify(manifest.tool.slug))
         /\ { <<r.original_name, r.sha256>> : r \in { x \in files : x.tool_version_id = id } }
              = { <<manifest.files[i].original_name,
                    to_ascii_lowercase(trim(manifest.files[i].sha256))>> :
                    i \in DOMAIN manifest.files }

\* C28: the import of an archive that was imported before changes no tool
\* and no version of the catalog and returns Conflict (or the error of a
\* failed file or database operation).
C28_ReimportRejected ==
  [][\A t \in Tasks :
       (task'[t] # task[t]
          /\ task'[t].op = "tool_import_zip"
          /\ AlreadyImported(task'[t].archive)) =>
         /\ tools' = tools
         /\ versions' = versions
         /\ task'[t].pc = "done" =>
              task'[t].result.kind \in {"Conflict", "Io", "Database"}]_vars


\* Task d has returned from tool_delete and task a from tool_add_version for
\* the same tool.
BothReturned(d, a) ==
  /\ task[d].pc = "done" /\ task[d].op = "tool_delete"
  /\ task[a].pc = "done" /\ task[a].op = "tool_add_version"
  /\ task[a].tool_id = task[d].tool_id

\* The version row and the file rows of the add-version of task a.
VersionRowsExist(a) ==
  /\ task[a].version_id \in DOMAIN versions
  /\ FileRows(task[a].version_id, to_db_file_rows(task[a].staged)) \subseteq files

NoVersionRows(a) ==
  /\ task[a].version_id \notin DOMAIN versions
  /\ \A r \in files : r.tool_version_id # task[a].version_id

NoBlobs(a) ==
  \A i \in DOMAIN task[a].staged : task[a].staged[i].stored_rel_path \notin DOMAIN store

TouchedPaths ==
  { p \in DOMAIN store \cup DOMAIN store' :
      \/ p \notin DOMAIN store
      \/ p \notin DOMAIN store'
      \/ store'[p] # store[p] }

\* C30: a write or a rollback step of an ingest touches only paths under
\* tools/<tool_id>/<version_id>/ of its own version_id, which no version of
\* the catalog carries, and never the blob of a file record of the catalog.
C30_IngestTouchesOwnVersion ==
  [][\A t \in Tasks :
       (task'[t] # task[t] /\ task[t].op \in IngestOps
          /\ task[t].pc \in {"write", "rollback"}) =>
         /\ task[t].version_id \notin DOMAIN versions
         /\ \A p \in TouchedPaths :
              /\ starts_with(p, PathOf(task[t].tool_id, task[t].version_id, <<>>))
              /\ \A r \in files : r.stored_rel_path # p]_vars

\* The rollback of an ingest has removed a blob while the catalog holds file
\* records of the same tool, all with their blobs.
C30_Witness ==
  /\ task["t1"].op \in IngestOps
  /\ task["t1"].pc = "rollback"
  /\ task["t1"].idx > 1
  /\ \E r \in files : UnderTool(r.stored_rel_path, task["t1"].tool_id)
  /\ \A r \in files :
       r.stored_rel_path \in DOMAIN store

====
